---- MODULE Spec2Model ----
(***************************************************************************)
(* Trading journal (Echo): the trade ledger, FIFO realized P&L, the daily  *)
(* portfolio-balance reconstruction and the backtest aggregates, modelled  *)
(* from trade_tracker.py, backtester.py and database.py.                   *)
(*                                                                         *)
(* Money and quantities are Python floats in the program.  They are        *)
(* modelled as exact rationals [n, d] in lowest terms, so that the         *)
(* proportional fee share (matched / quantity) * fee, the average price    *)
(* and round(x, 2) are computed, not assumed.  A timestamp is a natural    *)
(* number; the calendar day of a timestamp is its quotient by the number   *)
(* of time slots of a day.                                                 *)
(***************************************************************************)
EXTENDS Integers, Sequences, FiniteSets, Bags, TLC

VARIABLES
    trades,             \* rows of table `trades` of the user: a bag of trade records
    portfolio_history,  \* rows of table `portfolio_history` of the user: [id, date, total_value]
    now,                \* the wall clock (datetime.now()), a timestamp
    ret,                \* what the last completed operation returned
    threads,            \* the requests in flight: thread -> frame of its handler
    portfolio_adjustments,  \* rows of table `portfolio_adjustments` of the user
    db,  \* the three tables with the rows of every user: each row has user_id
    importer,  \* the Webull importer: the loadOrderList lines of the log files, the global processed_trades, and the POSTs the journal answered
    auth  \* the accounts: rows [email, reset_code] of table users, and whether SMTP_USER and SMTP_PASSWORD are set

vars == <<trades, portfolio_history, now, ret, threads, portfolio_adjustments, db, importer, auth>>

----------------------------------------------------------------------------
(* Exact arithmetic standing for the float arithmetic of the program.      *)

Abs(x) == IF x < 0 THEN -x ELSE x

RECURSIVE Gcd(_, _)
Gcd(a, b) == IF b = 0 THEN a ELSE Gcd(b, a % b)

\* n / d in lowest terms with a positive denominator
Rat(n, d) ==
    LET s == IF d < 0 THEN -1 ELSE 1
        g == Gcd(Abs(n), Abs(d))
    IN  [n |-> (s * n) \div g, d |-> (s * d) \div g]

R(i) == [n |-> i, d |-> 1]

RAdd(a, b) == Rat(a.n * b.d + b.n * a.d, a.d * b.d)
RSub(a, b) == Rat(a.n * b.d - b.n * a.d, a.d * b.d)
RMul(a, b) == Rat(a.n * b.n, a.d * b.d)
RDiv(a, b) == Rat(a.n * b.d, a.d * b.n)
RLt(a, b) == a.n * b.d < b.n * a.d
RLe(a, b) == a.n * b.d <= b.n * a.d
RMin(a, b) == IF RLe(a, b) THEN a ELSE b
RMax(a, b) == IF RLe(a, b) THEN b ELSE a
RAbs(a) == [n |-> Abs(a.n), d |-> a.d]

RECURSIVE Pow10(_)
Pow10(k) == IF k = 0 THEN 1 ELSE 10 * Pow10(k - 1)

\* Python's round(x, places): to the nearest multiple of 10^-places, an exact
\* tie going to the even neighbour
Round(x, places) ==
    LET p == x.n * Pow10(places)
        f == p \div x.d
        r == p - f * x.d
        up == \/ 2 * r > x.d
              \/ (2 * r = x.d /\ f % 2 = 1)
    IN  Rat(IF up THEN f + 1 ELSE f, Pow10(places))

----------------------------------------------------------------------------
(* Time.                                                                   *)

DaySlots == {0, 1}
SlotsPerDay == Cardinality(DaySlots)

\* the calendar day of a timestamp: strftime('%Y-%m-%d')
DateKey(ts) == ts \div SlotsPerDay

\* parsing a 'YYYY-MM-DD' string back: midnight of that day
Midnight(day) == day * SlotsPerDay

\* _parse_date of the isoformat() string load_trades makes of a stored datetime:
\* the stored timestamp itself
parse_date(ts) == ts

----------------------------------------------------------------------------
(* Trade records.                                                          *)

IsOpening(t) == t.action \in {"BUY", "OPEN"}
IsClosing(t) == t.action \in {"SELL", "CLOSE"}

\* the matching key: symbol_strike_option_type of an option, the symbol otherwise
get_symbol_key(t) ==
    IF t.trade_type = "OPTION"
    THEN <<t.symbol, t.strike, t.option_type>>
    ELSE <<t.symbol>>

MaxOf(S) == CHOOSE x \in S : \A y \in S : y <= x
MinOf(S) == CHOOSE x \in S : \A y \in S : x <= y

\* load_trades: the user's rows ORDER BY date DESC; rows of equal date come in
\* whatever order the database gives them
RECURSIVE load_trades(_)
load_trades(B) ==
    IF B = EmptyBag THEN {<<>>}
    ELSE LET mx == MaxOf({x.date : x \in BagToSet(B)})
         IN  UNION { { <<x>> \o s : s \in load_trades(B (-) SetToBag({x})) } :
                     x \in {y \in BagToSet(B) : y.date = mx} }

\* InsertByDate with the comparison turned round: the newest lot first (LIFO)
RECURSIVE InsertByDate_newest_first(_, _)
InsertByDate_newest_first(s, x) ==
    IF s = <<>> THEN <<x>>
    ELSE IF parse_date(x.date) > parse_date(s[Len(s)].date)
         THEN Append(InsertByDate_newest_first(SubSeq(s, 1, Len(s) - 1), x), s[Len(s)])
         ELSE Append(s, x)

\* list.sort(key=date): a stable ascending sort
RECURSIVE InsertByDate(_, _)
InsertByDate(s, x) ==
    IF s = <<>> THEN <<x>>
    ELSE IF parse_date(x.date) < parse_date(s[Len(s)].date)
         THEN Append(InsertByDate(SubSeq(s, 1, Len(s) - 1), x), s[Len(s)])
         ELSE Append(s, x)

RECURSIVE SortByDate(_)
SortByDate(s) ==
    IF s = <<>> THEN <<>>
    ELSE InsertByDate(SortByDate(SubSeq(s, 1, Len(s) - 1)), s[Len(s)])

----------------------------------------------------------------------------
(* TradeTracker.calculate_trade_pnl.                                       *)

\* "Options are per 100 shares": the factor applied to every matched lot
ContractMultiplier == 100

\* PriorOpens with <= for <: lots of the closing trade's own timestamp match too
PriorOpens_up_to_same_date(trade, loaded) ==
    LET Match(t) == /\ IsOpening(t)
                    /\ get_symbol_key(t) = get_symbol_key(trade)
                    /\ parse_date(t.date) <= parse_date(trade.date)
    IN  SelectSeq(loaded, Match)

\* the opening trades of the trade's matching key dated strictly before it, in
\* the order load_trades gave them
PriorOpens(trade, loaded) ==
    LET Match(t) == /\ IsOpening(t)
                    /\ get_symbol_key(t) = get_symbol_key(trade)
                    /\ parse_date(t.date) < parse_date(trade.date)
    IN  SelectSeq(loaded, Match)

\* the loop over buy_trades: [remaining_qty, total_cost, total_buy_fees] after
\* the lots i .. Len(buys)
RECURSIVE FifoLoop(_, _, _)
FifoLoop(buys, i, acc) ==
    IF i > Len(buys) \/ RLe(acc.remaining_qty, R(0)) THEN acc
    ELSE LET buy_qty == R(buys[i].quantity)
             buy_price == R(buys[i].price)
             buy_fee == R(buys[i].transaction_fee)
             matched_qty == RMin(acc.remaining_qty, buy_qty)
             share == IF RLt(R(0), buy_qty)
                      THEN RMul(RDiv(matched_qty, buy_qty), buy_fee)
                      ELSE R(0)
         IN  FifoLoop(buys, i + 1,
                 [remaining_qty |-> RSub(acc.remaining_qty, matched_qty),
                  total_cost |-> RAdd(acc.total_cost,
                      RMul(RMul(matched_qty, buy_price), R(ContractMultiplier))),
                  total_buy_fees |-> RAdd(acc.total_buy_fees, share)])

\* FifoPnl without the fallback for an unmatched remainder
FifoPnl_no_remainder(trade, loaded) ==
    LET buy_trades == SortByDate(PriorOpens(trade, loaded))
        m == FifoLoop(buy_trades, 1,
                 [remaining_qty |-> R(trade.quantity),
                  total_cost |-> R(0), total_buy_fees |-> R(0)])
        total_fees == RAdd(R(trade.transaction_fee), m.total_buy_fees)
    IN  RSub(RSub(R(trade.sold_amount), m.total_cost), total_fees)

\* the FIFO path: a closing trade with sold_amount > 0
FifoPnl(trade, loaded) ==
    LET buy_trades == SortByDate(PriorOpens(trade, loaded))
        m == FifoLoop(buy_trades, 1,
                 [remaining_qty |-> R(trade.quantity),
                  total_cost |-> R(0), total_buy_fees |-> R(0)])
        total_cost == IF RLt(R(0), m.remaining_qty)
                      THEN RAdd(m.total_cost,
                               RMul(RMul(m.remaining_qty, R(trade.price)), R(100)))
                      ELSE m.total_cost
        total_fees == RAdd(R(trade.transaction_fee), m.total_buy_fees)
    IN  RSub(RSub(R(trade.sold_amount), total_cost), total_fees)

\* sum(quantity * price * 100 for t in buy_trades)
RECURSIVE SumCost(_)
SumCost(s) ==
    IF s = <<>> THEN R(0)
    ELSE RAdd(RMul(RMul(R(Head(s).quantity), R(Head(s).price)), R(100)),
              SumCost(Tail(s)))

\* sum(quantity for t in buy_trades)
RECURSIVE SumQuantity(_)
SumQuantity(s) ==
    IF s = <<>> THEN R(0) ELSE RAdd(R(Head(s).quantity), SumQuantity(Tail(s)))

\* LegacyPnl without the test of the action: any trade is costed at the average
LegacyPnl_any_action(trade, loaded) ==
    LET buy_trades == PriorOpens(trade, loaded)
        total_cost == SumCost(buy_trades)
        total_quantity == SumQuantity(buy_trades)
    IN  IF buy_trades # <<>> /\ RLt(R(0), total_quantity)
        THEN RSub(RMul(RSub(RMul(R(trade.price), R(100)),
                            RDiv(total_cost, total_quantity)),
                       R(trade.quantity)),
                  R(trade.transaction_fee))
        ELSE R(0)

\* the "old method": a closing trade without sold_amount, costed at the average
\* price of all earlier opening trades of its key
LegacyPnl(trade, loaded) ==
    LET buy_trades == PriorOpens(trade, loaded)
        total_cost == SumCost(buy_trades)
        total_quantity == SumQuantity(buy_trades)
    IN  IF IsClosing(trade) /\ buy_trades # <<>> /\ RLt(R(0), total_quantity)
        THEN RSub(RMul(RSub(RMul(R(trade.price), R(100)),
                            RDiv(total_cost, total_quantity)),
                       R(trade.quantity)),
                  R(trade.transaction_fee))
        ELSE R(0)

\* calculate_trade_pnl(trade), `loaded` being what its load_trades() returned
calculate_trade_pnl(trade, loaded) ==
    IF IsClosing(trade) /\ trade.sold_amount > 0
    THEN FifoPnl(trade, loaded)
    ELSE LegacyPnl(trade, loaded)

----------------------------------------------------------------------------
(* The ledger operations.                                                  *)

MaxTrades == 3

NoReturn == [op |-> "none"]

\* the row add_trade stores for the request body trade_data: the option fields
\* are kept only when trade_type is OPTION
NewTrade(trade_data) ==
    [symbol |-> trade_data.symbol,
     action |-> trade_data.action,
     quantity |-> trade_data.quantity,
     price |-> trade_data.price,
     date |-> parse_date(trade_data.date),
     transaction_fee |-> trade_data.transaction_fee,
     sold_amount |-> trade_data.sold_amount,
     option_type |-> IF trade_data.trade_type = "OPTION"
                     THEN trade_data.option_type ELSE "",
     strike |-> IF trade_data.trade_type = "OPTION" THEN trade_data.strike ELSE 0,
     trade_type |-> trade_data.trade_type]

\* History kept with every get_portfolio_daily_balances call in flight: the
\* ledger states that existed since the call began.  A commit to table
\* `trades` adds the new state to it.
Observe(ledger) ==
    [th \in DOMAIN threads |->
        IF threads[th].pc \in {"load_trades", "calculate_trade_pnl"}
        THEN [threads[th] EXCEPT !.seen = @ \cup {ledger}]
        ELSE threads[th]]

\* the ledger states one get_portfolio_daily_balances call may live through
MaxSeen == 2

\* a commit to `trades` waits when a call in flight has seen that many
CanCommit(ledger) ==
    \A th \in DOMAIN threads :
        threads[th].pc \in {"load_trades", "calculate_trade_pnl"}
            => Cardinality(threads[th].seen \cup {ledger}) <= MaxSeen

add_trade(trade_data) ==
    /\ BagCardinality(trades) < MaxTrades
    /\ trades' = trades (+) SetToBag({NewTrade(trade_data)})
    /\ CanCommit(trades')
    /\ ret' = [op |-> "add_trade"]
    /\ threads' = Observe(trades')
    /\ UNCHANGED <<portfolio_history, now, portfolio_adjustments, db, importer, auth>>

delete_trade(row) ==
    /\ BagIn(row, trades)
    /\ trades' = trades (-) SetToBag({row})
    /\ CanCommit(trades')
    /\ ret' = [op |-> "delete_trade"]
    /\ threads' = Observe(trades')
    /\ UNCHANGED <<portfolio_history, now, portfolio_adjustments, db, importer, auth>>

\* the value update_trade leaves in column `key`
Updated(row, updates, key) ==
    IF key \in DOMAIN updates THEN updates[key] ELSE row[key]

\* update_trade(trade_id, updates) on the row of that id
update_trade(row, updates) ==
    /\ BagIn(row, trades)
    /\ trades' = (trades (-) SetToBag({row})) (+) SetToBag({
           [symbol |-> Updated(row, updates, "symbol"),
            action |-> Updated(row, updates, "action"),
            quantity |-> Updated(row, updates, "quantity"),
            price |-> Updated(row, updates, "price"),
            date |-> IF "date" \in DOMAIN updates
                     THEN parse_date(updates.date) ELSE row.date,
            transaction_fee |-> Updated(row, updates, "transaction_fee"),
            sold_amount |-> Updated(row, updates, "sold_amount"),
            option_type |-> Updated(row, updates, "option_type"),
            strike |-> Updated(row, updates, "strike"),
            trade_type |-> Updated(row, updates, "trade_type")]})
    /\ CanCommit(trades')
    /\ ret' = [op |-> "update_trade"]
    /\ threads' = Observe(trades')
    /\ UNCHANGED <<portfolio_history, now, portfolio_adjustments, db, importer, auth>>

\* calculate_trade_pnl(trade) for a trade of the ledger, as every caller does
CalculateTradePnl(trade) ==
    /\ BagIn(trade, trades)
    /\ \E loaded \in load_trades(trades) :
           ret' = [op |-> "calculate_trade_pnl", trade |-> trade,
                   pnl |-> calculate_trade_pnl(trade, loaded)]
    /\ UNCHANGED <<trades, portfolio_history, now, threads, portfolio_adjustments, db, importer, auth>>

----------------------------------------------------------------------------
(* The P&L calculator over every small ledger.                             *)

PnlInstruments ==
    { [symbol |-> "AAPL", trade_type |-> "STOCK", strike |-> 150, option_type |-> "CALL"],
      [symbol |-> "AAPL", trade_type |-> "OPTION", strike |-> 150, option_type |-> "CALL"] }

\* the request bodies of add_trade: opening trades carry no proceeds
PnlOpenInputs ==
    { [symbol |-> i.symbol, trade_type |-> i.trade_type, strike |-> i.strike,
       option_type |-> i.option_type, action |-> a, quantity |-> q, price |-> p,
       transaction_fee |-> 1, sold_amount |-> 0, date |-> d] :
      i \in PnlInstruments, a \in {"BUY", "OPEN"},
      q \in {1, 2}, p \in {1, 2}, d \in {0, 1, 2} }

PnlCloseInputs ==
    { [symbol |-> i.symbol, trade_type |-> i.trade_type, strike |-> i.strike,
       option_type |-> i.option_type, action |-> a, quantity |-> q, price |-> 3,
       transaction_fee |-> 2, sold_amount |-> s, date |-> d] :
      i \in PnlInstruments, a \in {"SELL", "CLOSE"},
      q \in {1, 2}, s \in {0, 300}, d \in {1, 2} }

PnlTradeInputs == PnlOpenInputs \cup PnlCloseInputs

Init ==
    /\ trades = EmptyBag
    /\ portfolio_history = {}
    /\ now = 0
    /\ ret = NoReturn
    /\ threads = <<>>
    /\ portfolio_adjustments = {}
    /\ db = [trades |-> {}, portfolio_history |-> {}, portfolio_adjustments |-> {}]
    /\ importer = [log |-> <<>>, processed_trades |-> {}, posted |-> <<>>]
    /\ auth = [users |-> {}, smtp_configured |-> FALSE]

NextPnl ==
    \/ \E td \in PnlTradeInputs : add_trade(td)
    \/ \E row \in BagToSet(trades) : delete_trade(row)
    \/ \E trade \in BagToSet(trades) : CalculateTradePnl(trade)

SpecPnl == Init /\ [][NextPnl]_vars

----------------------------------------------------------------------------
(* Portfolio snapshots and the daily-balance reconstruction.               *)

\* a request that carries no date
NoDate == -1

\* record_portfolio_value: the day written, at midnight
SnapshotDate(date_str) ==
    LET date_obj == IF date_str # NoDate THEN parse_date(date_str) ELSE now
    IN  Midnight(DateKey(date_obj))

\* the rows record_portfolio_value's query gives for a day
ExistingRows(date_obj) == {r \in portfolio_history : r.date = date_obj}

\* the id of a new row (a uuid4 in the program): a value no row has yet, here
\* the day and the row's rank among the rows of that day
NewId(rows, date_obj) ==
    <<DateKey(date_obj), Cardinality({r \in rows : r.date = date_obj}) + 1>>

\* the UPDATE of the row found, by its primary key
UpdateRow(rows, id, amount) ==
    {IF r.id = id THEN [r EXCEPT !.total_value = amount] ELSE r : r \in rows}

\* record_portfolio_value(amount, date_str), run without interruption
record_portfolio_value(amount, date_str) ==
    LET date_obj == SnapshotDate(date_str)
        normalized_amount == Round(amount, 2)
    IN  /\ IF ExistingRows(date_obj) # {}
           THEN \E existing \in ExistingRows(date_obj) :
                    portfolio_history' =
                        UpdateRow(portfolio_history, existing.id, normalized_amount)
           ELSE portfolio_history' = portfolio_history \cup
                    {[id |-> NewId(portfolio_history, date_obj), date |-> date_obj,
                      total_value |-> normalized_amount]}
        /\ ret' = [op |-> "record_portfolio_value", date |-> DateKey(date_obj),
                   amount |-> normalized_amount]
        /\ UNCHANGED <<trades, now, threads, portfolio_adjustments, db, importer, auth>>

\* load_portfolio_history: the user's rows ORDER BY date ASC as dicts, the date
\* written as 'YYYY-MM-DD'
RECURSIVE load_portfolio_history(_)
load_portfolio_history(rows) ==
    IF rows = {} THEN {<<>>}
    ELSE LET mn == MinOf({r.date : r \in rows})
         IN  UNION { { <<[id |-> r.id, date |-> DateKey(r.date), amount |-> r.total_value]>>
                       \o h : h \in load_portfolio_history(rows \ {r}) } :
                     r \in {x \in rows : x.date = mn} }

\* BaseEntry taking the latest snapshot for the base
RECURSIVE BaseEntry_latest(_)
BaseEntry_latest(history) ==
    IF Len(history) = 1 THEN history[1]
    ELSE LET rest == BaseEntry_latest(Tail(history))
         IN  IF Midnight(rest.date) > Midnight(history[1].date) THEN rest ELSE history[1]

\* min(portfolio_history, key=date): the first entry of the least date
RECURSIVE BaseEntry(_)
BaseEntry(history) ==
    IF Len(history) = 1 THEN history[1]
    ELSE LET rest == BaseEntry(Tail(history))
         IN  IF Midnight(rest.date) < Midnight(history[1].date) THEN rest ELSE history[1]

\* AddPnl with `=` for `+=`: the day keeps the P&L of its last trade only
AddPnl_overwrite(acc, trade, pnl) ==
    LET trade_date == parse_date(trade.date)
        date_key == DateKey(trade_date)
    IN  [pnl_by_day |->
             IF date_key \in DOMAIN acc.pnl_by_day
             THEN [acc.pnl_by_day EXCEPT ![date_key] = pnl]
             ELSE acc.pnl_by_day @@ (date_key :> pnl),
         last_trade_date |-> IF trade_date > acc.last_trade_date
                             THEN trade_date ELSE acc.last_trade_date]

\* one pass of the loop over trades: the P&L `pnl` of `trade` goes to its day
AddPnl(acc, trade, pnl) ==
    LET trade_date == parse_date(trade.date)
        date_key == DateKey(trade_date)
    IN  [pnl_by_day |->
             IF date_key \in DOMAIN acc.pnl_by_day
             THEN [acc.pnl_by_day EXCEPT ![date_key] = RAdd(@, pnl)]
             ELSE acc.pnl_by_day @@ (date_key :> RAdd(R(0), pnl)),
         last_trade_date |-> IF trade_date > acc.last_trade_date
                             THEN trade_date ELSE acc.last_trade_date]

\* the trades the loop takes: closing trades not dated before the base date
CountsFrom(trade, base_date) ==
    IsClosing(trade) /\ parse_date(trade.date) >= base_date

\* the loop over trades, from the i-th, every P&L read from the ledger `loaded`
RECURSIVE AggregatePnl(_, _, _, _)
AggregatePnl(loaded, i, base_date, acc) ==
    IF i > Len(loaded) THEN acc
    ELSE AggregatePnl(loaded, i + 1, base_date,
             IF CountsFrom(loaded[i], base_date)
             THEN AddPnl(acc, loaded[i], calculate_trade_pnl(loaded[i], loaded))
             ELSE acc)

\* DailyLoop with `<` for `<=`: the walk stops before the end date
RECURSIVE DailyLoop_exclusive_end(_, _, _, _, _)
DailyLoop_exclusive_end(current_date, end_date, cumulative_pnl, pnl_by_day, base_amount) ==
    IF ~(current_date < end_date) THEN <<>>
    ELSE LET date_key == DateKey(current_date)
             cumulative == IF date_key \in DOMAIN pnl_by_day
                           THEN RAdd(cumulative_pnl, pnl_by_day[date_key])
                           ELSE cumulative_pnl
         IN  (date_key :> Round(RAdd(base_amount, cumulative), 2))
             @@ DailyLoop_exclusive_end(current_date + SlotsPerDay, end_date,
                                        cumulative, pnl_by_day, base_amount)

\* the loop over the days from current_date to end_date
RECURSIVE DailyLoop(_, _, _, _, _)
DailyLoop(current_date, end_date, cumulative_pnl, pnl_by_day, base_amount) ==
    IF ~(current_date <= end_date) THEN <<>>
    ELSE LET date_key == DateKey(current_date)
             cumulative == IF date_key \in DOMAIN pnl_by_day
                           THEN RAdd(cumulative_pnl, pnl_by_day[date_key])
                           ELSE cumulative_pnl
         IN  (date_key :> Round(RAdd(base_amount, cumulative), 2))
             @@ DailyLoop(current_date + SlotsPerDay, end_date, cumulative,
                          pnl_by_day, base_amount)

\* the end of get_portfolio_daily_balances: the end date and the walk
DailyBalances(base_entry, acc, today) ==
    LET end_date == IF acc.last_trade_date >= today THEN acc.last_trade_date ELSE today
    IN  DailyLoop(Midnight(base_entry.date), end_date, R(0), acc.pnl_by_day,
                  base_entry.amount)

\* get_portfolio_daily_balances over what load_portfolio_history and load_trades
\* returned, the clock reading `today`
get_portfolio_daily_balances(history, loaded, today) ==
    IF history = <<>> THEN <<>>
    ELSE LET base_entry == BaseEntry(history)
             base_date == Midnight(base_entry.date)
             acc == AggregatePnl(loaded, 1, base_date,
                        [pnl_by_day |-> <<>>, last_trade_date |-> base_date])
         IN  DailyBalances(base_entry, acc, today)

\* get_portfolio_daily_balances(), run without interruption: every load sees
\* the same rows in the same order
GetPortfolioDailyBalances ==
    /\ \E history \in load_portfolio_history(portfolio_history) :
       \E loaded \in load_trades(trades) :
           ret' = [op |-> "get_portfolio_daily_balances",
                   balances |-> get_portfolio_daily_balances(history, loaded, now),
                   history |-> history, today |-> now, seen |-> {trades}]
    /\ UNCHANGED <<trades, portfolio_history, now, threads, portfolio_adjustments, db, importer, auth>>

\* the clock of datetime.now()
MaxTime == 5

Tick ==
    /\ now < MaxTime
    /\ now' = now + 1
    /\ UNCHANGED <<trades, portfolio_history, ret, threads, portfolio_adjustments, db, importer, auth>>

----------------------------------------------------------------------------
(* The program used by one request at a time: ledger, snapshots, clock.    *)

PortfolioTradeDates == {1, 2, MaxTime}

\* one option contract; three contracts bought, sold one at a time
PortfolioTradeInputs ==
    { [symbol |-> "AAPL", trade_type |-> "OPTION", strike |-> 150,
       option_type |-> "CALL", action |-> "BUY", quantity |-> 3, price |-> 1,
       transaction_fee |-> 1, sold_amount |-> 0, date |-> d] :
      d \in {1, MaxTime} }
    \cup
    { [symbol |-> "AAPL", trade_type |-> "OPTION", strike |-> 150,
       option_type |-> "CALL", action |-> "SELL", quantity |-> 1, price |-> 3,
       transaction_fee |-> 2, sold_amount |-> s, date |-> d] :
      s \in {0, 300}, d \in PortfolioTradeDates }

PortfolioUpdates == { [date |-> MaxTime] }

SnapshotAmounts == { R(0), Rat(1000125, 1000) }

SnapshotDates == {NoDate} \cup 0..MaxTime

Next ==
    \/ \E trade_data \in PortfolioTradeInputs : add_trade(trade_data)
    \/ \E row \in BagToSet(trades) : delete_trade(row)
    \/ \E row \in BagToSet(trades), updates \in PortfolioUpdates :
           update_trade(row, updates)
    \/ \E amount \in SnapshotAmounts, date_str \in SnapshotDates :
           record_portfolio_value(amount, date_str)
    \/ GetPortfolioDailyBalances
    \/ Tick

Spec == Init /\ [][Next]_vars

----------------------------------------------------------------------------
(* Requests of one user served by concurrent threads (app.run is threaded). *)
(* A handler runs from one database round trip to the next; the commits of  *)
(* add_trade, update_trade and delete_trade are single steps.               *)

NumThreads == 2

Threads == 1..NumThreads

\* the daily-balance computations in flight at a time
MaxBalanceCalls == 1

InFlight == {th \in Threads : threads[th].pc \in {"load_trades", "calculate_trade_pnl"}}

Idle == [pc |-> "idle"]

\* `existing` when the query of record_portfolio_value finds no row
NoRow == <<>>

\* record_portfolio_value up to its query for the row of the day
RecordQuery(th, amount, date_str) ==
    LET date_obj == SnapshotDate(date_str)
    IN  /\ threads[th].pc = "idle"
        /\ \E existing \in IF ExistingRows(date_obj) = {} THEN {NoRow}
                           ELSE {r.id : r \in ExistingRows(date_obj)} :
               threads' = [threads EXCEPT ![th] =
                   [pc |-> "commit", date_obj |-> date_obj,
                    normalized_amount |-> Round(amount, 2), existing |-> existing]]
        /\ UNCHANGED <<trades, portfolio_history, now, ret, portfolio_adjustments, db, importer, auth>>

\* record_portfolio_value from the query on: the update of the row found, or
\* the insert of a new row, and the commit
RecordCommit(th) ==
    LET f == threads[th]
    IN  /\ f.pc = "commit"
        /\ portfolio_history' =
               IF f.existing # NoRow
               THEN UpdateRow(portfolio_history, f.existing, f.normalized_amount)
               ELSE portfolio_history \cup
                        {[id |-> NewId(portfolio_history, f.date_obj),
                          date |-> f.date_obj, total_value |-> f.normalized_amount]}
        /\ ret' = [op |-> "record_portfolio_value", date |-> DateKey(f.date_obj),
                   amount |-> f.normalized_amount]
        /\ threads' = [threads EXCEPT ![th] = Idle]
        /\ UNCHANGED <<trades, now, portfolio_adjustments, db, importer, auth>>

\* get_portfolio_daily_balances up to load_portfolio_history and the base entry
BalancesBegin(th) ==
    /\ threads[th].pc = "idle"
    /\ Cardinality(InFlight) < MaxBalanceCalls
    /\ \E history \in load_portfolio_history(portfolio_history) :
           IF history = <<>>
           THEN /\ ret' = [op |-> "get_portfolio_daily_balances", balances |-> <<>>,
                           history |-> history, today |-> now, seen |-> {trades}]
                /\ UNCHANGED threads
           ELSE /\ threads' = [threads EXCEPT ![th] =
                       [pc |-> "load_trades", history |-> history, seen |-> {trades}]]
                /\ UNCHANGED ret
    /\ UNCHANGED <<trades, portfolio_history, now, portfolio_adjustments, db, importer, auth>>

\* the load_trades of get_portfolio_daily_balances
BalancesLoadTrades(th) ==
    LET f == threads[th]
    IN  /\ f.pc = "load_trades"
        /\ \E loaded \in load_trades(trades) :
               threads' = [threads EXCEPT ![th] =
                   [pc |-> "calculate_trade_pnl", history |-> f.history,
                    loaded |-> loaded, i |-> 1,
                    acc |-> [pnl_by_day |-> <<>>,
                             last_trade_date |-> Midnight(BaseEntry(f.history).date)],
                    seen |-> f.seen]]
        /\ UNCHANGED <<trades, portfolio_history, now, ret, portfolio_adjustments, db, importer, auth>>

\* the next trade the loop passes to calculate_trade_pnl: its index in
\* `loaded`, Len(loaded) + 1 when the loop is over
RECURSIVE NextCounted(_, _, _)
NextCounted(loaded, i, base_date) ==
    IF i > Len(loaded) \/ CountsFrom(loaded[i], base_date) THEN i
    ELSE NextCounted(loaded, i + 1, base_date)

\* one call of calculate_trade_pnl from the loop: it loads the ledger itself
BalancesCalculate(th) ==
    LET f == threads[th]
    IN  /\ f.pc = "calculate_trade_pnl"
        /\ LET j == NextCounted(f.loaded, f.i, Midnight(BaseEntry(f.history).date))
           IN  /\ j <= Len(f.loaded)
               /\ \E fresh \in load_trades(trades) :
                      threads' = [threads EXCEPT ![th] =
                          [f EXCEPT !.i = j + 1,
                                    !.acc = AddPnl(f.acc, f.loaded[j],
                                        calculate_trade_pnl(f.loaded[j], fresh))]]
        /\ UNCHANGED <<trades, portfolio_history, now, ret, portfolio_adjustments, db, importer, auth>>

\* the end of the loop, the clock reading and the walk over the days
BalancesReturn(th) ==
    LET f == threads[th]
    IN  /\ f.pc = "calculate_trade_pnl"
        /\ NextCounted(f.loaded, f.i, Midnight(BaseEntry(f.history).date)) > Len(f.loaded)
        /\ ret' = [op |-> "get_portfolio_daily_balances",
                   balances |-> DailyBalances(BaseEntry(f.history), f.acc, now),
                   history |-> f.history, today |-> now, seen |-> f.seen]
        /\ threads' = [threads EXCEPT ![th] = Idle]
        /\ UNCHANGED <<trades, portfolio_history, now, portfolio_adjustments, db, importer, auth>>

\* three contracts bought at 1, one sold at 2 or later
ConcTradeInputs ==
    { t \in PortfolioTradeInputs :
          \/ t.action = "BUY" /\ t.date = 1
          \/ t.action = "SELL" /\ t.date # 1 /\ t.sold_amount > 0 }

ConcSnapshotDates == {NoDate, 2}

InitConc ==
    /\ trades = EmptyBag
    /\ portfolio_history = {}
    /\ now = 0
    /\ ret = NoReturn
    /\ threads = [th \in Threads |-> Idle]
    /\ portfolio_adjustments = {}
    /\ db = [trades |-> {}, portfolio_history |-> {}, portfolio_adjustments |-> {}]
    /\ importer = [log |-> <<>>, processed_trades |-> {}, posted |-> <<>>]
    /\ auth = [users |-> {}, smtp_configured |-> FALSE]

\* interleaved record_portfolio_value requests
NextSnapshots ==
    \/ \E th \in Threads, amount \in SnapshotAmounts, date_str \in ConcSnapshotDates :
           RecordQuery(th, amount, date_str)
    \/ \E th \in Threads : RecordCommit(th)
    \/ Tick

SpecSnapshots == InitConc /\ [][NextSnapshots]_vars

\* get_portfolio_daily_balances requests among commits to the ledger
NextConc ==
    \/ \E trade_data \in ConcTradeInputs : add_trade(trade_data)
    \/ \E row \in BagToSet(trades) : delete_trade(row)
    \/ \E row \in BagToSet(trades), updates \in PortfolioUpdates :
           update_trade(row, updates)
    \/ \E date_str \in ConcSnapshotDates : record_portfolio_value(R(0), date_str)
    \/ \E th \in Threads : BalancesBegin(th)
    \/ \E th \in Threads : BalancesLoadTrades(th)
    \/ \E th \in Threads : BalancesCalculate(th)
    \/ \E th \in Threads : BalancesReturn(th)

SpecConc == InitConc /\ [][NextConc]_vars

----------------------------------------------------------------------------
(* Adjustments and the portfolio summary of GET /api/portfolio.            *)

\* the adjustments a user may have
MaxAdjustments == 2

\* migrate_portfolio_adjustments, for one record adj_data of the file: a record
\* whose id is stored already is skipped.  Table `portfolio_adjustments` has no
\* column for apply_to; entered_apply_to is history, the scope the record
\* had in the file, and no operation reads it.
migrate_portfolio_adjustments(adj_data) ==
    /\ portfolio_adjustments' =
           IF \E r \in portfolio_adjustments : r.id = adj_data.id
           THEN portfolio_adjustments
           ELSE portfolio_adjustments \cup
                    {[id |-> adj_data.id,
                      date |-> Midnight(DateKey(parse_date(adj_data.date))),
                      amount |-> adj_data.amount,
                      entered_apply_to |-> adj_data.apply_to]}
    /\ ret' = [op |-> "migrate_portfolio_adjustments"]
    /\ UNCHANGED <<trades, portfolio_history, now, threads, db, importer, auth>>

\* load_portfolio_adjustments: the rows ORDER BY date ASC as dicts, the date
\* written as 'YYYY-MM-DD', apply_to always 'since_start'
RECURSIVE load_portfolio_adjustments(_)
load_portfolio_adjustments(rows) ==
    IF rows = {} THEN {<<>>}
    ELSE LET mn == MinOf({r.date : r \in rows})
         IN  UNION { { <<[id |-> r.id, date |-> DateKey(r.date), amount |-> r.amount,
                          apply_to |-> "since_start"]>> \o h :
                       h \in load_portfolio_adjustments(rows \ {r}) } :
                     r \in {x \in rows : x.date = mn} }

\* the summary with every adjustment taken as never applying to since-start
AppliesSinceStart_never(adj) == FALSE

\* the test of line 200
AppliesSinceStart(adj) == adj.apply_to \in {"since_start", "both"}

\* the summary with every adjustment added to the latest amount
AppliesLatest_always(adj, start_date) == TRUE

\* the tests of lines 202 to 205
AppliesLatest(adj, start_date) ==
    adj.apply_to \in {"latest", "both"} /\ adj.date >= start_date

\* since_start_adjustments after the loop over adjustments
RECURSIVE SinceStartAdjustments(_)
SinceStartAdjustments(adjustments) ==
    IF adjustments = <<>> THEN R(0)
    ELSE RAdd(IF AppliesSinceStart(Head(adjustments))
              THEN Head(adjustments).amount ELSE R(0),
              SinceStartAdjustments(Tail(adjustments)))

\* latest_adjustments after the loop over adjustments
RECURSIVE LatestAdjustments(_, _)
LatestAdjustments(adjustments, start_date) ==
    IF adjustments = <<>> THEN R(0)
    ELSE RAdd(IF AppliesLatest(Head(adjustments), start_date)
              THEN Head(adjustments).amount ELSE R(0),
              LatestAdjustments(Tail(adjustments), start_date))

\* request.args.get('limit', 30, type=int)
DefaultLimit == 30

\* `history`: the days from the latest down, at most `limit` of them (one at
\* least), the latest with the adjusted amount
RECURSIVE SummaryEntries(_, _, _, _, _)
SummaryEntries(daily_balances, dates, latest_date, adjusted_latest_amount, room) ==
    IF dates = {} THEN <<>>
    ELSE LET date_str == MaxOf(dates)
             entry == [date |-> date_str,
                       amount |-> IF date_str = latest_date
                                  THEN adjusted_latest_amount
                                  ELSE daily_balances[date_str]]
         IN  IF room <= 1 THEN <<entry>>
             ELSE <<entry>> \o SummaryEntries(daily_balances, dates \ {date_str},
                                   latest_date, adjusted_latest_amount, room - 1)

\* None, where the summary has no day to show
NoEntry == [date |-> NoDate, amount |-> R(0)]

\* the summary of no balances
EmptySummary ==
    [entries |-> <<>>, latest |-> NoEntry, previous |-> NoEntry, start |-> NoEntry,
     change |-> R(0), since_start_change |-> R(0), since_start_percent |-> R(0)]

\* the summary of portfolio_tracker for balances that are not empty
portfolio_summary(daily_balances, adjustments, limit) ==
    LET sorted_dates == DOMAIN daily_balances
        start_date == MinOf(sorted_dates)
        latest_date == MaxOf(sorted_dates)
        has_previous == Cardinality(sorted_dates) > 1
        latest_amount == daily_balances[latest_date]
        start_amount == daily_balances[start_date]
        since_start_adjustments == SinceStartAdjustments(adjustments)
        latest_adjustments == LatestAdjustments(adjustments, start_date)
        adjusted_latest_amount == Round(RAdd(latest_amount, latest_adjustments), 2)
        since_start_change ==
            Round(RAdd(RSub(latest_amount, start_amount), since_start_adjustments), 2)
    IN  [entries |-> SummaryEntries(daily_balances, sorted_dates, latest_date,
                                    adjusted_latest_amount, limit),
         latest |-> [date |-> latest_date, amount |-> adjusted_latest_amount],
         previous |-> IF has_previous
                      THEN LET previous_date == MaxOf(sorted_dates \ {latest_date})
                           IN  [date |-> previous_date,
                                amount |-> daily_balances[previous_date]]
                      ELSE NoEntry,
         start |-> [date |-> start_date, amount |-> start_amount],
         change |-> IF has_previous
                    THEN Round(RSub(latest_amount,
                                    daily_balances[MaxOf(sorted_dates \ {latest_date})]), 2)
                    ELSE R(0),
         since_start_change |-> since_start_change,
         since_start_percent |->
             IF start_amount # R(0)
             THEN Round(RMul(RDiv(since_start_change, start_amount), R(100)), 2)
             ELSE R(0)]

\* GET /api/portfolio
PortfolioTracker(limit) ==
    /\ \E history \in load_portfolio_history(portfolio_history) :
       \E loaded \in load_trades(trades) :
       \E adjustments \in load_portfolio_adjustments(portfolio_adjustments) :
           LET daily_balances == get_portfolio_daily_balances(history, loaded, now)
           IN  ret' = [op |-> "portfolio_tracker",
                       daily_balances |-> daily_balances,
                       summary |-> IF daily_balances = <<>> THEN EmptySummary
                                   ELSE portfolio_summary(daily_balances,
                                                          adjustments, limit)]
    /\ UNCHANGED <<trades, portfolio_history, now, threads, portfolio_adjustments, db, importer, auth>>

\* closing trades without opening trades, on day 0 and on day 1
SummaryTradeInputs ==
    { [symbol |-> "AAPL", trade_type |-> "OPTION", strike |-> 150,
       option_type |-> "CALL", action |-> "SELL", quantity |-> 1, price |-> 3,
       transaction_fee |-> 2, sold_amount |-> 300, date |-> d] : d \in {1, 2} }

\* records of the adjustments file
AdjustmentInputs ==
    [id : 1..MaxAdjustments, date : {1, 2}, amount : {R(100), R(-50)},
     apply_to : {"since_start", "latest", "both"}]

NextSummary ==
    \/ \E td \in SummaryTradeInputs : add_trade(td)
    \/ \E row \in BagToSet(trades) : delete_trade(row)
    \/ \E amount \in SnapshotAmounts, date_str \in ConcSnapshotDates :
           record_portfolio_value(amount, date_str)
    \/ \E adj_data \in AdjustmentInputs : migrate_portfolio_adjustments(adj_data)
    \/ PortfolioTracker(DefaultLimit)

SpecSummary == Init /\ [][NextSummary]_vars

----------------------------------------------------------------------------
(* Aggregates: TradeTracker.get_pnl_metrics and StrategyBacktester.        *)

\* the P&L of each closing trade of `loaded`, in order: all_pnls
RECURSIVE AllPnls(_, _)
AllPnls(loaded, i) ==
    IF i > Len(loaded) THEN <<>>
    ELSE IF IsClosing(loaded[i])
         THEN <<calculate_trade_pnl(loaded[i], loaded)>> \o AllPnls(loaded, i + 1)
         ELSE AllPnls(loaded, i + 1)

RECURSIVE SumRat(_)
SumRat(s) == IF s = <<>> THEN R(0) ELSE RAdd(Head(s), SumRat(Tail(s)))

RECURSIVE MaxRat(_)
MaxRat(s) == IF Len(s) = 1 THEN s[1] ELSE RMax(s[1], MaxRat(Tail(s)))

IsWin(p) == RLt(R(0), p)
IsNotWin(p) == ~RLt(R(0), p)
IsLoss(p) == RLt(p, R(0))

RECURSIVE AbsAll(_)
AbsAll(s) == IF s = <<>> THEN <<>> ELSE <<RAbs(Head(s))>> \o AbsAll(Tail(s))

\* get_pnl_metrics over what load_trades returned; the figures that depend on
\* the clock (day, week and month P&L) and avg_loss_pct, expectancy are left out
get_pnl_metrics(loaded) ==
    LET all_pnls == AllPnls(loaded, 1)
        total_trades == Len(all_pnls)
        wins == SelectSeq(all_pnls, IsWin)
        losses == AbsAll(SelectSeq(all_pnls, IsLoss))
        winning_trades == Len(wins)
        win_rate == IF total_trades > 0
                    THEN Rat(winning_trades * 100, total_trades) ELSE R(0)
        winning_pnl == SumRat(wins)
        losing_pnl == SumRat(losses)
        profit_factor == IF RLt(R(0), losing_pnl) THEN RDiv(winning_pnl, losing_pnl)
                         ELSE IF RLt(R(0), winning_pnl) THEN winning_pnl ELSE R(0)
    IN  [all_time_pnl |-> Round(SumRat(all_pnls), 2),
         win_rate |-> Round(win_rate, 1),
         total_trades |-> total_trades,
         winning_trades |-> winning_trades,
         losing_trades |-> total_trades - winning_trades,
         profit_factor |-> Round(profit_factor, 2),
         avg_win |-> IF wins # <<>>
                     THEN Round(RDiv(SumRat(wins), R(Len(wins))), 2) ELSE R(0),
         avg_loss |-> IF losses # <<>>
                      THEN Round(RDiv(SumRat(losses), R(Len(losses))), 2) ELSE R(0),
         largest_win |-> IF wins # <<>> THEN Round(MaxRat(wins), 2) ELSE R(0),
         largest_loss |-> IF losses # <<>> THEN Round(MaxRat(losses), 2) ELSE R(0)]

\* StrategyBacktester.TRANSACTION_FEE
TRANSACTION_FEE == 2

\* StrategyBacktester._calculate_trade_pnl: the trade's own price as cost basis
backtester_calculate_trade_pnl(trade) ==
    IF trade.sold_amount > 0
    THEN RSub(RSub(R(trade.sold_amount),
                   RMul(RMul(R(trade.quantity), R(trade.price)), R(100))),
              R(TRANSACTION_FEE))
    ELSE R(0)

DayNames ==
    <<"Monday", "Tuesday", "Wednesday", "Thursday", "Friday", "Saturday", "Sunday">>

\* day_names[trade_date.weekday()], day 0 of the model being a Monday
DayName(ts) == DayNames[(DateKey(ts) % Len(DayNames)) + 1]

\* StrategyBacktester._parse_date: a date that is missing or not in one of
\* its formats reads as the clock
backtester_parse_date(date_str) == IF date_str = NoDate THEN now ELSE date_str

\* a bound of time_range that is not given
NoBound == -1

\* a bound of time_range given as text, as the JSON body of POST /api/backtest
\* gives it: its comparison with a datetime raises TypeError
StrBound == -2

\* a filter set with nothing set: {}
PermissiveFilters ==
    [day_of_week |-> {}, symbols |-> {}, exclude_symbols |-> {}, strategies |-> {},
     time_range |-> [start |-> NoBound, end |-> NoBound], min_win_rate |-> 0]

RECURSIVE BacktestPnls(_)
BacktestPnls(s) ==
    IF s = <<>> THEN <<>>
    ELSE <<backtester_calculate_trade_pnl(Head(s))>> \o BacktestPnls(Tail(s))

\* _calculate_symbol_win_rates, for one symbol of the list: wins / total * 100
SymbolWinRate(symbol, filtered) ==
    LET OfSymbol(t) == t.symbol = symbol
        pnls == BacktestPnls(SelectSeq(filtered, OfSymbol))
    IN  IF Len(pnls) > 0
        THEN Rat(Len(SelectSeq(pnls, IsWin)) * 100, Len(pnls)) ELSE R(0)

\* _apply_filters with the win rates of min_win_rate taken over every closing
\* trade of the ledger
apply_filters_full_history_rates(filters, original_trades) ==
    LET Pass(t) ==
            /\ IsClosing(t)
            /\ filters.day_of_week # {} => DayName(backtester_parse_date(t.date)) \in filters.day_of_week
            /\ filters.symbols # {} => t.symbol \in filters.symbols
            /\ filters.exclude_symbols # {} => t.symbol \notin filters.exclude_symbols
            /\ filters.strategies # {} => "No Strategy" \in filters.strategies
            /\ filters.time_range.start # StrBound /\ filters.time_range.end # StrBound
            /\ filters.time_range.start # NoBound =>
                   ~(backtester_parse_date(t.date) < filters.time_range.start)
            /\ filters.time_range.end # NoBound =>
                   ~(backtester_parse_date(t.date) > filters.time_range.end)
        filtered == SelectSeq(original_trades, Pass)
        Enough(t) == RLe(R(filters.min_win_rate),
                         SymbolWinRate(t.symbol, SelectSeq(original_trades, IsClosing)))
    IN  IF filters.min_win_rate # 0 THEN SelectSeq(filtered, Enough) ELSE filtered

\* _apply_filters without the test of the action: every trade is a candidate
apply_filters_any_action(filters, original_trades) ==
    LET Pass(t) ==
            /\ filters.day_of_week # {} => DayName(backtester_parse_date(t.date)) \in filters.day_of_week
            /\ filters.symbols # {} => t.symbol \in filters.symbols
            /\ filters.exclude_symbols # {} => t.symbol \notin filters.exclude_symbols
            /\ filters.strategies # {} => "No Strategy" \in filters.strategies
            /\ filters.time_range.start # StrBound /\ filters.time_range.end # StrBound
            /\ filters.time_range.start # NoBound =>
                   ~(backtester_parse_date(t.date) < filters.time_range.start)
            /\ filters.time_range.end # NoBound =>
                   ~(backtester_parse_date(t.date) > filters.time_range.end)
        filtered == SelectSeq(original_trades, Pass)
        Enough(t) == RLe(R(filters.min_win_rate), SymbolWinRate(t.symbol, filtered))
    IN  IF filters.min_win_rate # 0 THEN SelectSeq(filtered, Enough) ELSE filtered

\* StrategyBacktester._apply_filters; a trade read by load_trades carries no
\* strategy, which counts as "No Strategy"; a time_range bound given as text
\* makes the comparison raise, and the trade is skipped
apply_filters(filters, original_trades) ==
    LET Pass(t) ==
            /\ IsClosing(t)
            /\ filters.day_of_week # {} => DayName(backtester_parse_date(t.date)) \in filters.day_of_week
            /\ filters.symbols # {} => t.symbol \in filters.symbols
            /\ filters.exclude_symbols # {} => t.symbol \notin filters.exclude_symbols
            /\ filters.strategies # {} => "No Strategy" \in filters.strategies
            /\ filters.time_range.start # StrBound /\ filters.time_range.end # StrBound
            /\ filters.time_range.start # NoBound =>
                   ~(backtester_parse_date(t.date) < filters.time_range.start)
            /\ filters.time_range.end # NoBound =>
                   ~(backtester_parse_date(t.date) > filters.time_range.end)
        filtered == SelectSeq(original_trades, Pass)
        Enough(t) == RLe(R(filters.min_win_rate), SymbolWinRate(t.symbol, filtered))
    IN  IF filters.min_win_rate # 0 THEN SelectSeq(filtered, Enough) ELSE filtered

\* StrategyBacktester._calculate_results
calculate_results(filtered) ==
    LET pnls == BacktestPnls(filtered)
        total_trades == Len(filtered)
        wins == SelectSeq(pnls, IsWin)
        losses == AbsAll(SelectSeq(pnls, IsNotWin))
        total_pnl == SumRat(pnls)
        win_rate == IF total_trades > 0
                    THEN Rat(Len(wins) * 100, total_trades) ELSE R(0)
        avg_pnl == IF total_trades > 0 THEN RDiv(total_pnl, R(total_trades)) ELSE R(0)
    IN  [total_trades |-> total_trades,
         winning_trades |-> Len(wins),
         losing_trades |-> Len(losses),
         win_rate |-> Round(win_rate, 1),
         total_pnl |-> Round(total_pnl, 2),
         avg_pnl |-> Round(avg_pnl, 2),
         max_win |-> IF wins # <<>> THEN Round(MaxRat(wins), 2) ELSE R(0),
         max_loss |-> IF losses # <<>> THEN Round(MaxRat(losses), 2) ELSE R(0),
         avg_win |-> IF wins # <<>>
                     THEN Round(RDiv(SumRat(wins), R(Len(wins))), 2) ELSE R(0),
         avg_loss |-> IF losses # <<>>
                      THEN Round(RDiv(SumRat(losses), R(Len(losses))), 2) ELSE R(0)]

\* StrategyBacktester(original_trades).backtest(filters)
backtest(filters, original_trades) ==
    LET filtered_trades == apply_filters(filters, original_trades)
    IN  IF filtered_trades = <<>>
        THEN [total_trades |-> 0, winning_trades |-> 0, losing_trades |-> 0,
              win_rate |-> R(0), total_pnl |-> R(0), avg_pnl |-> R(0),
              max_win |-> R(0), max_loss |-> R(0),
              original_trades |-> Len(original_trades), filtered_trades |-> 0]
        ELSE calculate_results(filtered_trades) @@
             [original_trades |-> Len(original_trades),
              filtered_trades |-> Len(filtered_trades),
              trades_removed |-> Len(original_trades) - Len(filtered_trades)]

\* GET /api/pnl: get_pnl_metrics of the user's tracker
GetPnlMetrics ==
    /\ \E loaded \in load_trades(trades) :
           ret' = [op |-> "get_pnl_metrics", metrics |-> get_pnl_metrics(loaded)]
    /\ UNCHANGED <<trades, portfolio_history, now, threads, portfolio_adjustments, db, importer, auth>>

\* POST /api/backtest: a backtest over get_recent_trades(limit=1000), which is
\* load_trades re-sorted newest first
RunBacktest(filters) ==
    /\ \E loaded \in load_trades(trades) :
           ret' = [op |-> "backtest", filters |-> filters,
                   metrics |-> backtest(filters, loaded)]
    /\ UNCHANGED <<trades, portfolio_history, now, threads, portfolio_adjustments, db, importer, auth>>

BacktestSymbols == {"AAPL", "TSLA"}

\* request bodies of add_trade for the reports: options of two symbols
BacktestTradeInputs ==
    { [symbol |-> y, trade_type |-> "OPTION", strike |-> 150, option_type |-> "CALL",
       action |-> "BUY", quantity |-> q, price |-> 1,
       transaction_fee |-> 1, sold_amount |-> 0, date |-> d] :
      y \in BacktestSymbols, q \in {1, 3}, d \in {0, 1} }
    \cup
    { [symbol |-> y, trade_type |-> "OPTION", strike |-> 150, option_type |-> "CALL",
       action |-> a, quantity |-> 1, price |-> p,
       transaction_fee |-> 2, sold_amount |-> x, date |-> d] :
      y \in BacktestSymbols, a \in {"SELL", "CLOSE"}, p \in {1, 3},
      x \in {0, 102, 500}, d \in {1, 2} }

BacktestFilters == {PermissiveFilters}

NextBacktest ==
    \/ \E td \in BacktestTradeInputs : add_trade(td)
    \/ \E row \in BagToSet(trades) : delete_trade(row)
    \/ GetPnlMetrics
    \/ \E filters \in BacktestFilters : RunBacktest(filters)

SpecBacktest == Init /\ [][NextBacktest]_vars

----------------------------------------------------------------------------
(* A StrategyBacktester object: built by a request on the trades it loads, *)
(* held in the frame of the request's thread, used for several calls.      *)

\* StrategyBacktester(trades); `results` and `calls` are history: the last
\* Metrics backtest returned for each filter set, and the number of calls
StrategyBacktester(trade_list) ==
    [pc |-> "backtester", original_trades |-> trade_list, trades |-> trade_list,
     results |-> <<>>, calls |-> 0]

\* backtest with `self.original_trades = filtered_trades` added
backtest_self_keeps_filtered(self, filters) ==
    [self EXCEPT !.original_trades = apply_filters(filters, self.original_trades)]

\* the object after backtest(filters): no attribute of self is assigned
backtest_self(self, filters) == self

\* results[key] = value of a dict
Put(results, key, value) ==
    [k \in DOMAIN results \cup {key} |-> IF k = key THEN value ELSE results[k]]

\* a scenario without the key 'name'
NoName == "(no name)"

MaxScenarios == 2

\* f'Scenario {i+1}'
DefaultNames == [i \in 1..MaxScenarios + 1 |->
                    CASE i = 1 -> "Scenario 1" [] i = 2 -> "Scenario 2"
                      [] i = 3 -> "Scenario 3" [] OTHER -> "Scenario N"]

scenario_name(scenarios, i) ==
    IF scenarios[i].name = NoName THEN DefaultNames[i] ELSE scenarios[i].name

\* the loop of compare_scenarios from the i-th scenario
RECURSIVE CompareLoop(_, _, _, _)
CompareLoop(self, scenarios, i, results) ==
    IF i > Len(scenarios) THEN results
    ELSE CompareLoop(backtest_self(self, scenarios[i].filters), scenarios, i + 1,
             Put(results, scenario_name(scenarios, i),
                 backtest(scenarios[i].filters, self.original_trades)))

compare_scenarios(self, scenarios) == CompareLoop(self, scenarios, 1, <<>>)

\* the backtester objects alive at a time
MaxBacktesters == 1

\* the calls of backtest on one object
MaxCalls == 2

\* run_backtest and compare_backtests up to StrategyBacktester(trades)
NewBacktester(th) ==
    /\ threads[th].pc = "idle"
    /\ Cardinality({t \in DOMAIN threads : threads[t].pc = "backtester"}) < MaxBacktesters
    /\ \E loaded \in load_trades(trades) :
           threads' = [threads EXCEPT ![th] = StrategyBacktester(loaded)]
    /\ ret' = [op |-> "StrategyBacktester"]
    /\ UNCHANGED <<trades, portfolio_history, now, portfolio_adjustments, db, importer, auth>>

\* backtester.backtest(filters)
Backtest(th, filters) ==
    LET self == threads[th]
    IN  /\ self.pc = "backtester"
        /\ self.calls < MaxCalls
        /\ LET metrics == backtest(filters, self.original_trades)
           IN  /\ ret' = [op |-> "backtest", filters |-> filters, metrics |-> metrics]
               /\ threads' = [threads EXCEPT ![th] =
                      [backtest_self(self, filters) EXCEPT
                           !.results = Put(self.results, filters, metrics),
                           !.calls = self.calls + 1]]
        /\ UNCHANGED <<trades, portfolio_history, now, portfolio_adjustments, db, importer, auth>>

\* backtester.compare_scenarios(scenarios)
CompareScenarios(th, scenarios) ==
    LET self == threads[th]
    IN  /\ self.pc = "backtester"
        /\ ret' = [op |-> "compare_scenarios", scenarios |-> scenarios,
                   original_trades |-> self.original_trades,
                   results |-> compare_scenarios(self, scenarios)]
        /\ UNCHANGED <<trades, portfolio_history, now, threads, portfolio_adjustments, db, importer, auth>>

\* the end of the request: the object is dropped
DropBacktester(th) ==
    /\ threads[th].pc = "backtester"
    /\ threads' = [threads EXCEPT ![th] = Idle]
    /\ UNCHANGED <<trades, portfolio_history, now, ret, portfolio_adjustments, db, importer, auth>>

\* closing trades of one symbol that win or do not, on two days
ScenarioTradeInputs ==
    { [symbol |-> "AAPL", trade_type |-> "OPTION", strike |-> 150,
       option_type |-> "CALL", action |-> "SELL", quantity |-> 1, price |-> 1,
       transaction_fee |-> 2, sold_amount |-> x, date |-> d] :
      x \in {0, 500}, d \in {1, 2} }

ScenarioFilters ==
    { PermissiveFilters, [PermissiveFilters EXCEPT !.day_of_week = {"Monday"}] }

ScenarioNames == {NoName, "Scenario 2"}

Scenarios == [name : ScenarioNames, filters : ScenarioFilters]

\* the lists of at most MaxScenarios scenarios, no filter set twice
ScenarioLists ==
    { l \in UNION { [1..n -> Scenarios] : n \in 0..MaxScenarios } :
          \A i, j \in DOMAIN l : l[i].filters = l[j].filters => i = j }

\* requests that call backtest on their object, the clock and the ledger moving
NextIdempotence ==
    \/ \E td \in ScenarioTradeInputs : add_trade(td)
    \/ \E row \in BagToSet(trades) : delete_trade(row)
    \/ \E th \in Threads : NewBacktester(th)
    \/ \E th \in Threads, filters \in ScenarioFilters : Backtest(th, filters)
    \/ \E th \in Threads : DropBacktester(th)
    \/ Tick

SpecIdempotence == InitConc /\ [][NextIdempotence]_vars

\* requests that call compare_scenarios on their object
NextScenarios ==
    \/ \E td \in ScenarioTradeInputs : add_trade(td)
    \/ \E row \in BagToSet(trades) : delete_trade(row)
    \/ \E th \in Threads : NewBacktester(th)
    \/ \E th \in Threads, scenarios \in ScenarioLists : CompareScenarios(th, scenarios)
    \/ \E th \in Threads : DropBacktester(th)

SpecScenarios == InitConc /\ [][NextScenarios]_vars

----------------------------------------------------------------------------
(* StrategyBacktester._apply_filters over small ledgers and filter sets.   *)

\* _apply_filters(filters) of a StrategyBacktester built on the user's trades
ApplyFilters(filters) ==
    /\ \E loaded \in load_trades(trades) :
           ret' = [op |-> "_apply_filters", filters |-> filters,
                   original_trades |-> loaded,
                   filtered |-> apply_filters(filters, loaded)]
    /\ UNCHANGED <<trades, portfolio_history, now, threads, portfolio_adjustments, db, importer, auth>>

\* one opening trade, and closing trades of two symbols on two days that win
\* (sold_amount 500) or do not (no sold_amount)
FilterTradeInputs ==
    { [symbol |-> "AAPL", trade_type |-> "OPTION", strike |-> 150,
       option_type |-> "CALL", action |-> "BUY", quantity |-> 1, price |-> 1,
       transaction_fee |-> 1, sold_amount |-> 0, date |-> 1] }
    \cup
    { [symbol |-> y, trade_type |-> "OPTION", strike |-> 150, option_type |-> "CALL",
       action |-> "SELL", quantity |-> 1, price |-> 1,
       transaction_fee |-> 2, sold_amount |-> x, date |-> d] :
      y \in BacktestSymbols, x \in {0, 500}, d \in {1, 2} }

\* filter sets: a day, a symbol, a start date and a minimum win rate in every
\* combination; an exclusion, a strategy, an end date and a start date given
\* as text each with a minimum win rate
FilterInputs ==
    { [PermissiveFilters EXCEPT !.day_of_week = dow, !.symbols = sy,
                                !.time_range.start = b, !.min_win_rate = w] :
      dow \in {{}, {"Monday"}}, sy \in {{}, {"AAPL"}}, b \in {NoBound, 2},
      w \in {0, 50, 100} }
    \cup
    { [PermissiveFilters EXCEPT !.exclude_symbols = {"TSLA"}, !.min_win_rate = 50],
      [PermissiveFilters EXCEPT !.strategies = {"Covered Call"}, !.min_win_rate = 50],
      [PermissiveFilters EXCEPT !.strategies = {"No Strategy"}, !.min_win_rate = 50],
      [PermissiveFilters EXCEPT !.time_range.end = 1, !.min_win_rate = 50],
      [PermissiveFilters EXCEPT !.time_range.start = StrBound, !.min_win_rate = 50] }

NextFilters ==
    \/ \E td \in FilterTradeInputs : add_trade(td)
    \/ \E row \in BagToSet(trades) : delete_trade(row)
    \/ \E filters \in FilterInputs : ApplyFilters(filters)

SpecFilters == Init /\ [][NextFilters]_vars

----------------------------------------------------------------------------
(* What the P&L of a closing trade should be, stated without the loop: the *)
(* i-th lot in date order gives min(quantity_i, what the earlier lots left *)
(* of the closing quantity).                                               *)

SameInstrument(a, b) ==
    /\ a.symbol = b.symbol
    /\ (a.trade_type = "OPTION") = (b.trade_type = "OPTION")
    /\ a.trade_type = "OPTION" => (a.strike = b.strike /\ a.option_type = b.option_type)

\* the opening trades of the closing trade's instrument dated strictly before it
EarlierOpens(trade, B) ==
    LET S == {t \in BagToSet(B) : /\ t.action \in {"BUY", "OPEN"}
                                  /\ SameInstrument(t, trade)
                                  /\ t.date < trade.date}
    IN  [t \in S |-> CopiesIn(t, B)]

\* every arrangement of a bag of trades with the oldest date first
RECURSIVE OldestFirst(_)
OldestFirst(B) ==
    IF B = EmptyBag THEN {<<>>}
    ELSE UNION { { <<x>> \o s : s \in OldestFirst(B (-) SetToBag({x})) } :
                 x \in {y \in BagToSet(B) : \A z \in BagToSet(B) : y.date <= z.date} }

Max0(x) == IF x < 0 THEN 0 ELSE x
Min2(x, y) == IF x <= y THEN x ELSE y

RECURSIVE QtyBefore(_, _)
QtyBefore(opens, i) ==
    IF i <= 1 THEN 0 ELSE QtyBefore(opens, i - 1) + opens[i - 1].quantity

Matched(opens, i, qty) == Max0(Min2(opens[i].quantity, qty - QtyBefore(opens, i)))

Leftover(opens, qty) == Max0(qty - QtyBefore(opens, Len(opens) + 1))

\* the cost of the matched lots 1 .. i, each unit of a lot costing price * mult
RECURSIVE MatchedCost(_, _, _, _)
MatchedCost(opens, i, qty, mult) ==
    IF i = 0 THEN 0
    ELSE MatchedCost(opens, i - 1, qty, mult)
         + Matched(opens, i, qty) * opens[i].price * mult

\* the fee shares of the matched lots 1 .. i
RECURSIVE MatchedFees(_, _, _)
MatchedFees(opens, i, qty) ==
    IF i = 0 THEN R(0)
    ELSE RAdd(MatchedFees(opens, i - 1, qty),
              Rat(Matched(opens, i, qty) * opens[i].transaction_fee, opens[i].quantity))

\* sold_amount - cost of the matched lots - cost of the unmatched remainder
\*   - (closing fee + matched opening fees)
ExpectedPnl(trade, opens, mult) ==
    RSub(R(trade.sold_amount
           - MatchedCost(opens, Len(opens), trade.quantity, mult)
           - Leftover(opens, trade.quantity) * trade.price * 100),
         RAdd(R(trade.transaction_fee), MatchedFees(opens, Len(opens), trade.quantity)))

\* calculate_trade_pnl has just returned for a closing trade with proceeds
ReturnedFifo ==
    /\ ret.op = "calculate_trade_pnl"
    /\ ret.trade.action \in {"SELL", "CLOSE"}
    /\ ret.trade.sold_amount > 0

\* the example of the specification: opens 5 @ 1.00 and 5 @ 2.00, fee 1 each;
\* the close of 7 sold for 1400 with fee 2
ExampleTrade(action, quantity, price, fee, sold, date) ==
    [symbol |-> "AAPL", trade_type |-> "OPTION", strike |-> 150, option_type |-> "CALL",
     action |-> action, quantity |-> quantity, price |-> price,
     transaction_fee |-> fee, sold_amount |-> sold, date |-> date]

ExamplePnl ==
    calculate_trade_pnl(ExampleTrade("SELL", 7, 3, 2, 1400, 2),
        << ExampleTrade("SELL", 7, 3, 2, 1400, 2),
           ExampleTrade("BUY", 5, 2, 1, 0, 1),
           ExampleTrade("BUY", 5, 1, 1, 0, 0) >>)

\* C1: a closing trade with sold_amount > 0 gets sold_amount - total_cost -
\* (closing fee + matched opening fees), the earlier opening trades of its key
\* being consumed oldest first, each giving matched = min(remaining, quantity),
\* matched * price * 100 of cost and matched / quantity of its fee; the example
\* of the specification gives 496.60.
C1_FifoPnl ==
    /\ ReturnedFifo =>
           \E opens \in OldestFirst(EarlierOpens(ret.trade, trades)) :
               ret.pnl = ExpectedPnl(ret.trade, opens, 100)
    /\ ExamplePnl = Rat(49660, 100)

\* C1 witness: two lots of different dates and prices, the first consumed whole
\* and the second in part
C1_Witness ==
    /\ ReturnedFifo
    /\ \E opens \in OldestFirst(EarlierOpens(ret.trade, trades)) :
           /\ Len(opens) = 2
           /\ opens[1].date < opens[2].date
           /\ opens[1].price # opens[2].price
           /\ Matched(opens, 1, ret.trade.quantity) = opens[1].quantity
           /\ Matched(opens, 2, ret.trade.quantity) > 0
           /\ Matched(opens, 2, ret.trade.quantity) < opens[2].quantity
           /\ ret.pnl = ExpectedPnl(ret.trade, opens, 100)

\* C3 (as claimed): the matched lots of a stock trade cost matched * price * 1,
\* the factor 100 being applied to options only.
C3_StockMultiplierOne ==
    (ReturnedFifo /\ ret.trade.trade_type = "STOCK") =>
        \E opens \in OldestFirst(EarlierOpens(ret.trade, trades)) :
            ret.pnl = ExpectedPnl(ret.trade, opens, 1)

\* sum over a bag of lots of quantity * price, and of quantity
RECURSIVE LotsValue(_)
LotsValue(B) ==
    IF B = EmptyBag THEN 0
    ELSE LET t == CHOOSE x \in BagToSet(B) : TRUE
         IN  t.quantity * t.price + LotsValue(B (-) SetToBag({t}))

RECURSIVE LotsQuantity(_)
LotsQuantity(B) ==
    IF B = EmptyBag THEN 0
    ELSE LET t == CHOOSE x \in BagToSet(B) : TRUE
         IN  t.quantity + LotsQuantity(B (-) SetToBag({t}))

\* calculate_trade_pnl has just returned for a trade that is not a closing trade
\* with proceeds
ReturnedOther ==
    /\ ret.op = "calculate_trade_pnl"
    /\ ~(ret.trade.action \in {"SELL", "CLOSE"} /\ ret.trade.sold_amount > 0)

\* C4 (as claimed): every trade that is not a closing trade with sold_amount > 0
\* yields 0, whatever the ledger contains.
C4_OtherTradesYieldZero == ReturnedOther => ret.pnl = R(0)

\* C4 (amended): an opening trade yields 0, and so does a closing trade without
\* proceeds that has no earlier opening trade of its key; a closing trade
\* without proceeds that has some gets the average-cost figure
\* (price * 100 - average cost of the earlier lots) * quantity - fee.
C4_ZeroOrAverageCost ==
    ReturnedOther =>
        LET lots == EarlierOpens(ret.trade, trades)
        IN  IF ret.trade.action \in {"SELL", "CLOSE"} /\ lots # EmptyBag
            THEN ret.pnl =
                   RSub(RMul(RSub(R(ret.trade.price * 100),
                                  Rat(100 * LotsValue(lots), LotsQuantity(lots))),
                             R(ret.trade.quantity)),
                        R(ret.trade.transaction_fee))
            ELSE ret.pnl = R(0)

\* C4 witness: the P&L of an opening trade that has earlier opening trades of
\* its own key has been computed
C4_Witness ==
    /\ ReturnedOther
    /\ ret.trade.action \in {"BUY", "OPEN"}
    /\ EarlierOpens(ret.trade, trades) # EmptyBag
    /\ ret.pnl = R(0)

\* C5: with no earlier opening trade of its key a closing trade with proceeds
\* gets sold_amount - quantity * price * 100 - fee; in general the quantity the
\* lots leave unmatched is costed at remainder * closing price * 100.
C5_UnmatchedRemainder ==
    ReturnedFifo =>
        /\ EarlierOpens(ret.trade, trades) = EmptyBag =>
               ret.pnl = R(ret.trade.sold_amount
                           - ret.trade.quantity * ret.trade.price * 100
                           - ret.trade.transaction_fee)
        /\ \E opens \in OldestFirst(EarlierOpens(ret.trade, trades)) :
               LET qty == ret.trade.quantity
                   matched_only ==
                       RSub(R(ret.trade.sold_amount - MatchedCost(opens, Len(opens), qty, 100)),
                            RAdd(R(ret.trade.transaction_fee),
                                 MatchedFees(opens, Len(opens), qty)))
               IN  ret.pnl = RSub(matched_only,
                                  R(Leftover(opens, qty) * ret.trade.price * 100))

\* C5 witness: the lots cover a part of the closing quantity only
C5_Witness ==
    /\ ReturnedFifo
    /\ EarlierOpens(ret.trade, trades) # EmptyBag
    /\ \E opens \in OldestFirst(EarlierOpens(ret.trade, trades)) :
           /\ Leftover(opens, ret.trade.quantity) > 0
           /\ Leftover(opens, ret.trade.quantity) < ret.trade.quantity

\* C6: only opening trades of the closing trade's key dated strictly before it
\* count: the P&L is what it would be with every other trade taken out of the
\* ledger.
C6_OnlyEarlierSameKey ==
    (ret.op = "calculate_trade_pnl" /\ ret.trade.action \in {"SELL", "CLOSE"}) =>
        ret.pnl \in { calculate_trade_pnl(ret.trade, loaded) :
                      loaded \in load_trades(EarlierOpens(ret.trade, trades)) }

\* C6 witness: the ledger holds an opening trade of the closing trade's key
\* that is not dated before it, and an earlier opening trade of another key
C6_Witness ==
    /\ ReturnedFifo
    /\ \E t \in BagToSet(trades) :
           /\ t.action \in {"BUY", "OPEN"}
           /\ SameInstrument(t, ret.trade)
           /\ t.date >= ret.trade.date
    /\ \E t \in BagToSet(trades) :
           /\ t.action \in {"BUY", "OPEN"}
           /\ ~SameInstrument(t, ret.trade)
           /\ t.symbol = ret.trade.symbol
           /\ t.date < ret.trade.date

\* C2 (as claimed): a backtest with nothing filtered gives the trade count, win
\* count, loss count, win rate and total P&L that get_pnl_metrics gives for
\* the same ledger.
C2_BacktestMatchesLive ==
    (ret.op = "backtest" /\ ret.filters = PermissiveFilters) =>
        \E loaded \in load_trades(trades) :
            LET live == get_pnl_metrics(loaded)
            IN  /\ ret.metrics.total_trades = live.total_trades
                /\ ret.metrics.winning_trades = live.winning_trades
                /\ ret.metrics.losing_trades = live.losing_trades
                /\ ret.metrics.win_rate = live.win_rate
                /\ ret.metrics.total_pnl = live.all_time_pnl

----------------------------------------------------------------------------
(* The daily-balance series.  While ret holds the return of                *)
(* get_portfolio_daily_balances under Spec, the tables are those of the    *)
(* call and ret.today is the clock reading of the call.                    *)

ReturnedBalances == ret.op = "get_portfolio_daily_balances" /\ portfolio_history # {}

\* the calendar day of the earliest snapshot, and its amount
BaseDay == MinOf({DateKey(r.date) : r \in portfolio_history})
BaseAmount == (CHOOSE r \in portfolio_history : DateKey(r.date) = BaseDay).total_value

TradeDays == {DateKey(t.date) : t \in BagToSet(trades)}
ClosingDays == {DateKey(t.date) : t \in {x \in BagToSet(trades) : IsClosing(x)}}

\* C7 as stated: when snapshots exist the series has one entry for every day
\* from the base day through max(today, latest trade date), and no other
C7_SeriesThroughLatestTrade ==
    ReturnedBalances =>
        DOMAIN ret.balances = BaseDay .. MaxOf({DateKey(ret.today)} \cup TradeDays)

\* C7 amended: when snapshots exist the series has one entry for every day
\* from the base day through max(base day, today, latest closing-trade date),
\* and no other
C7_SeriesThroughLatestClosing ==
    ReturnedBalances =>
        DOMAIN ret.balances =
            BaseDay .. MaxOf({BaseDay, DateKey(ret.today)} \cup ClosingDays)

\* a series of three days or more that a closing trade dated after today
\* extends, one of its days without any trade
C7_Witness ==
    /\ ReturnedBalances
    /\ Cardinality(DOMAIN ret.balances) >= 3
    /\ \E d \in ClosingDays : d > DateKey(ret.today) /\ d \in DOMAIN ret.balances
    /\ \E d \in DOMAIN ret.balances : d # BaseDay /\ d \notin TradeDays

\* the sum of calculate_trade_pnl over the closing trades of `loaded`, from the
\* i-th, dated from the base date up to and including day D
RECURSIVE PnlThrough(_, _, _)
PnlThrough(loaded, i, D) ==
    IF i > Len(loaded) THEN R(0)
    ELSE LET t == loaded[i]
         IN  IF IsClosing(t) /\ BaseDay <= DateKey(t.date) /\ DateKey(t.date) <= D
             THEN RAdd(calculate_trade_pnl(t, loaded), PnlThrough(loaded, i + 1, D))
             ELSE PnlThrough(loaded, i + 1, D)

\* a day without a closing trade has the balance of the day before
CarriesForward ==
    \A D \in DOMAIN ret.balances :
        (D - 1 \in DOMAIN ret.balances /\ D \notin ClosingDays)
            => ret.balances[D] = ret.balances[D - 1]

\* C8 as stated: balance(D) = base_amount + the sum of calculate_trade_pnl over
\* the closing trades dated from the base date through D; a day with no closing
\* trade has the balance of the previous day
C8_BalanceIsBasePlusPnl ==
    ReturnedBalances =>
        /\ \E loaded \in load_trades(trades) : \A D \in DOMAIN ret.balances :
               ret.balances[D] = RAdd(BaseAmount, PnlThrough(loaded, 1, D))
        /\ CarriesForward

\* C8 amended: balance(D) is that sum rounded to two decimals
C8_BalanceIsRoundedBasePlusPnl ==
    ReturnedBalances =>
        /\ \E loaded \in load_trades(trades) : \A D \in DOMAIN ret.balances :
               ret.balances[D] = Round(RAdd(BaseAmount, PnlThrough(loaded, 1, D)), 2)
        /\ CarriesForward

\* a closing trade before the base day, two closing trades of one day in the
\* series, and a later day without a closing trade
C8_Witness ==
    /\ ReturnedBalances
    /\ \E d \in ClosingDays : d < BaseDay
    /\ \E t \in BagToSet(trades) :
           /\ IsClosing(t) /\ DateKey(t.date) \in DOMAIN ret.balances
           /\ CopiesIn(t, trades) >= 2
    /\ \E D \in DOMAIN ret.balances : D - 1 \in DOMAIN ret.balances /\ D \notin ClosingDays
    /\ \E D \in DOMAIN ret.balances : ret.balances[D] # BaseAmount

----------------------------------------------------------------------------
(* Snapshots and balances under interleaved requests (SpecConc).           *)

\* C9: after any record_portfolio_value calls, two interleaved calls for one
\* day among them, a day has at most one stored snapshot, and its amount is the
\* amount of the last write to that day
C9_OneSnapshotPerDay ==
    /\ \A r1, r2 \in portfolio_history : r1.date = r2.date => r1 = r2
    /\ ret.op = "record_portfolio_value" =>
           \A r \in portfolio_history :
               DateKey(r.date) = ret.date => r.total_value = ret.amount

\* C10: the series a daily-balance computation returns is the series of one
\* single ledger state that existed during the call
C10_SeriesOfOneLedgerState ==
    ret.op = "get_portfolio_daily_balances" =>
        \E ledger \in ret.seen : \E loaded \in load_trades(ledger) :
            ret.balances = get_portfolio_daily_balances(ret.history, loaded, ret.today)

----------------------------------------------------------------------------
(* Reports when the database fails, and over ledgers with a record that    *)
(* add_trade stored without validation.                                    *)

\* what the query of a load does: it returns the rows or raises
DbOutcomes == {"ok", "error"}

\* load_trades with its except branch: a failed query gives []
load_trades_db(ledger, outcome) ==
    IF outcome = "error" THEN {<<>>} ELSE load_trades(ledger)

\* load_portfolio_history with its except branch: a failed query gives []
load_portfolio_history_db(rows, outcome) ==
    IF outcome = "error" THEN {<<>>} ELSE load_portfolio_history(rows)

\* get_pnl_metrics, the query of load_trades ending as `outcome`; `raised` is
\* the exception that reaches the caller
GetPnlMetricsDb(outcome) ==
    /\ \E loaded \in load_trades_db(trades, outcome) :
           ret' = [op |-> "get_pnl_metrics", db |-> outcome, raised |-> "none",
                   metrics |-> get_pnl_metrics(loaded)]
    /\ UNCHANGED <<trades, portfolio_history, now, threads, portfolio_adjustments, db, importer, auth>>

\* get_portfolio_daily_balances, the query of load_portfolio_history ending as
\* history_outcome and the queries of load_trades as trades_outcome
GetPortfolioDailyBalancesDb(history_outcome, trades_outcome) ==
    /\ \E history \in load_portfolio_history_db(portfolio_history, history_outcome) :
       \E loaded \in load_trades_db(trades, trades_outcome) :
           ret' = [op |-> "get_portfolio_daily_balances",
                   db |-> IF "error" \in {history_outcome, trades_outcome}
                          THEN "error" ELSE "ok",
                   raised |-> "none",
                   balances |-> get_portfolio_daily_balances(history, loaded, now),
                   history |-> history, today |-> now, seen |-> {trades}]
    /\ UNCHANGED <<trades, portfolio_history, now, threads, portfolio_adjustments, db, importer, auth>>

\* request bodies of add_trade: two contracts bought, one sold, and two with a
\* quantity that is not positive, which add_trade stores as they are
RobustTradeInputs ==
    { [symbol |-> "AAPL", trade_type |-> "OPTION", strike |-> 150,
       option_type |-> "CALL", action |-> a.action, quantity |-> a.quantity,
       price |-> a.price, transaction_fee |-> a.fee,
       sold_amount |-> a.sold_amount, date |-> a.date] :
      a \in { [action |-> "BUY", quantity |-> 2, price |-> 1, fee |-> 1,
               sold_amount |-> 0, date |-> 0],
              [action |-> "BUY", quantity |-> -1, price |-> 1, fee |-> 1,
               sold_amount |-> 0, date |-> 1],
              [action |-> "SELL", quantity |-> 1, price |-> 3, fee |-> 2,
               sold_amount |-> 300, date |-> 2],
              [action |-> "SELL", quantity |-> -1, price |-> 3, fee |-> 2,
               sold_amount |-> 300, date |-> 2] } }

NextRobust ==
    \/ \E td \in RobustTradeInputs : add_trade(td)
    \/ \E row \in BagToSet(trades) : delete_trade(row)
    \/ \E amount \in SnapshotAmounts, date_str \in ConcSnapshotDates :
           record_portfolio_value(amount, date_str)
    \/ \E row \in BagToSet(trades) : CalculateTradePnl(row)
    \/ \E outcome \in DbOutcomes : GetPnlMetricsDb(outcome)
    \/ \E h \in DbOutcomes, t \in DbOutcomes : GetPortfolioDailyBalancesDb(h, t)

SpecRobust == Init /\ [][NextRobust]_vars

----------------------------------------------------------------------------
(* The filters of the backtester.                                          *)

\* the positions of ret.original_trades that pass the day-of-week, symbol,
\* exclusion, strategy and date-range filters of ret.filters
Population ==
    LET f == ret.filters
        l == ret.original_trades
    IN  { i \in 1..Len(l) :
            /\ IsClosing(l[i])
            /\ f.day_of_week = {} \/ DayName(l[i].date) \in f.day_of_week
            /\ f.symbols = {} \/ l[i].symbol \in f.symbols
            /\ f.exclude_symbols = {} \/ l[i].symbol \notin f.exclude_symbols
            /\ f.strategies = {} \/ "No Strategy" \in f.strategies
            /\ f.time_range.start \notin {NoBound, StrBound} => l[i].date >= f.time_range.start
            /\ f.time_range.end \notin {NoBound, StrBound} => l[i].date <= f.time_range.end
            /\ StrBound \notin {f.time_range.start, f.time_range.end} }

\* the win rate, in percent, of a symbol among the positions P
WinRateAmong(symbol, P) ==
    LET of == {i \in P : ret.original_trades[i].symbol = symbol}
        won == {i \in of :
                   IsWin(backtester_calculate_trade_pnl(ret.original_trades[i]))}
    IN  IF of = {} THEN R(0) ELSE Rat(100 * Cardinality(won), Cardinality(of))

\* the trades at the positions P, in ledger order
RECURSIVE TradesAt(_, _)
TradesAt(P, i) ==
    IF i > Len(ret.original_trades) THEN <<>>
    ELSE (IF i \in P THEN <<ret.original_trades[i]>> ELSE <<>>) \o TradesAt(P, i + 1)

AllClosing == {i \in 1..Len(ret.original_trades) : IsClosing(ret.original_trades[i])}

\* C11: with a minimum win rate set, a trade survives iff it passes the other
\* filters and the win rate of its symbol among the trades that pass them is at
\* least the threshold
C11_WinRateOverFiltered ==
    (ret.op = "_apply_filters" /\ ret.filters.min_win_rate # 0) =>
        ret.filtered =
            TradesAt({i \in Population :
                         RLe(R(ret.filters.min_win_rate),
                             WinRateAmong(ret.original_trades[i].symbol, Population))}, 1)

\* a result that the win rates of the whole history would not give
C11_Witness ==
    /\ ret.op = "_apply_filters" /\ ret.filters.min_win_rate # 0
    /\ ret.filtered # <<>>
    /\ ret.filtered #
            TradesAt({i \in Population :
                         RLe(R(ret.filters.min_win_rate),
                             WinRateAmong(ret.original_trades[i].symbol, AllClosing))}, 1)

\* the fields of the Metrics record of a backtest
MetricsFields ==
    {"total_trades", "winning_trades", "losing_trades", "win_rate", "total_pnl",
     "avg_pnl", "max_win", "max_loss", "avg_win", "avg_loss", "original_trades",
     "filtered_trades", "trades_removed"}

\* C12: when no trade survives the filters, backtest returns a record with
\* every field of the Metrics record, all computed statistics 0
C12_ZeroTradeMetrics ==
    (ret.op = "backtest" /\ ret.metrics.filtered_trades = 0) =>
        /\ DOMAIN ret.metrics = MetricsFields
        /\ \A k \in {"total_trades", "winning_trades", "losing_trades"} :
               ret.metrics[k] = 0
        /\ \A k \in {"win_rate", "total_pnl", "avg_pnl", "max_win", "max_loss",
                     "avg_win", "avg_loss"} : ret.metrics[k] = R(0)

----------------------------------------------------------------------------
(* Repeated calls on one StrategyBacktester.                                *)

\* C13: while a StrategyBacktester lives, its ledger original_trades stays as
\* it is, and a backtest with filters it has run before returns the Metrics it
\* returned before
C13_BacktestIdempotent ==
    [][\A th \in Threads :
          (threads[th].pc = "backtester" /\ threads'[th].pc = "backtester") =>
              /\ threads'[th].original_trades = threads[th].original_trades
              /\ \A f \in DOMAIN threads[th].results :
                     threads'[th].results[f] = threads[th].results[f]]_vars

\* an object that ran the same filters twice over a ledger with trades, the
\* clock and the user's trades having changed since it was built
C13_Witness ==
    \E th \in Threads :
        /\ threads[th].pc = "backtester"
        /\ threads[th].calls = 2
        /\ Cardinality(DOMAIN threads[th].results) = 1
        /\ \E f \in DOMAIN threads[th].results :
               /\ threads[th].results[f].total_trades > 0
               /\ threads[th].results[f].trades_removed > 0
        /\ threads[th].original_trades \notin load_trades(trades)
        /\ now > 0

\* C14: compare_scenarios returns one entry per scenario, under its name or
\* "Scenario N", and the entry is what backtest gives for that scenario's
\* filters on the same ledger
C14_OneEntryPerScenario ==
    ret.op = "compare_scenarios" =>
        /\ Cardinality(DOMAIN ret.results) = Len(ret.scenarios)
        /\ \A i \in 1..Len(ret.scenarios) :
               /\ scenario_name(ret.scenarios, i) \in DOMAIN ret.results
               /\ ret.results[scenario_name(ret.scenarios, i)] =
                      backtest(ret.scenarios[i].filters, ret.original_trades)

----------------------------------------------------------------------------
(* The portfolio summary (SpecSummary).  While ret holds the return of     *)
(* GET /api/portfolio, the tables are those of the request.                *)

ReturnedSummary == ret.op = "portfolio_tracker" /\ ret.daily_balances # <<>>

\* the summary the request would have returned with the adjustments `rows`
SummaryWith(rows) ==
    portfolio_summary(ret.daily_balances,
                      CHOOSE a \in load_portfolio_adjustments(rows) : TRUE,
                      DefaultLimit)

RECURSIVE SumAmounts(_)
SumAmounts(rows) ==
    IF rows = {} THEN R(0)
    ELSE LET r == CHOOSE x \in rows : TRUE
         IN  RAdd(r.amount, SumAmounts(rows \ {r}))

LatestOnlyBeforeBase ==
    {a \in portfolio_adjustments :
        a.entered_apply_to = "latest" /\ DateKey(a.date) < BaseDay}

\* C15: an adjustment of scope `latest` dated before the base date does not
\* change the latest amount of the summary: without it the latest is the same
C15_LatestOnlyBeforeBase ==
    ReturnedSummary =>
        \A a \in LatestOnlyBeforeBase :
            ret.summary.latest = SummaryWith(portfolio_adjustments \ {a}).latest

\* a summary of a user with such an adjustment, its amount not 0
C15_Witness ==
    /\ ReturnedSummary
    /\ \E a \in LatestOnlyBeforeBase : a.amount # R(0)

\* C16: the latest amount of the summary is the raw latest balance plus the
\* adjustments of scope `latest` or `both` dated on or after the base date
C16_LatestShifted ==
    ReturnedSummary =>
        ret.summary.latest.amount =
            Round(RAdd(ret.daily_balances[MaxOf(DOMAIN ret.daily_balances)],
                       SumAmounts({a \in portfolio_adjustments :
                                      /\ a.entered_apply_to \in {"latest", "both"}
                                      /\ DateKey(a.date) >= BaseDay})), 2)

SinceStartScoped ==
    {a \in portfolio_adjustments : a.entered_apply_to \in {"since_start", "both"}}

C18_PercentOfBaseAmount ==
    ReturnedSummary =>
        ret.summary.since_start_percent =
            IF BaseAmount = R(0) THEN R(0)
            ELSE Round(RMul(RDiv(ret.summary.since_start_change, BaseAmount),
                            R(100)), 2)

----------------------------------------------------------------------------
(* Failures and malformed records (SpecRobust).                            *)

\* C19: when a load of trades or snapshots fails, the caller of the report
\* gets the error DataAccessError, not a result
C19_FailureSurfaced ==
    (ret.op \in {"get_pnl_metrics", "get_portfolio_daily_balances"}
        /\ "db" \in DOMAIN ret /\ ret.db = "error") =>
        ret.raised = "DataAccessError"

\* a record whose quantity is not a positive number
Malformed(t) == t.quantity <= 0

WellFormedTrades ==
    LET S == {t \in BagToSet(trades) : ~Malformed(t)}
    IN  [t \in S |-> CopiesIn(t, trades)]

\* C20: in a ledger with a single malformed record, calculate_trade_pnl gives 0
\* for that record, and for every other trade what it gives when the malformed
\* record is absent
C20_MalformedIsNeutral ==
    (ret.op = "calculate_trade_pnl"
        /\ BagCardinality(trades) - BagCardinality(WellFormedTrades) = 1) =>
        IF Malformed(ret.trade) THEN ret.pnl = R(0)
        ELSE \E loaded \in load_trades(WellFormedTrades) :
                 ret.pnl = calculate_trade_pnl(ret.trade, loaded)

----------------------------------------------------------------------------
(* The trackers of several users over the same tables.                     *)

\* get_current_user_id gives None for a request without a valid session
NoUser == "(none)"

\* the owners of rows
UserIds == {"default", "alice"}

\* what get_current_user_id gives
SessionUsers == {NoUser, "alice"}

\* TradeTracker(user_id).user_id, as get_user_tracker makes it
get_user_tracker(user_id) == IF user_id # NoUser THEN user_id ELSE "default"

\* rows of one table, all users together
MaxRows == 2

\* a uuid4: an id no row of the table has
NewRowId(rows) == CHOOSE id \in 1..(Cardinality(rows) + 1) : \A r \in rows : r.id # id

\* a query that ignores the owner
Owned_any_user(rows, user_id) == rows

\* .filter(X.user_id == self.user_id)
Owned(rows, user_id) == {r \in rows : r.user_id = user_id}

\* .filter(Trade.id == trade_id, Trade.user_id == self.user_id)
FindTrade(rows, trade_id, user_id) == {r \in Owned(rows, user_id) : r.id = trade_id}

\* a row without its owner column, as the dicts the loads build
AsDict(row) == [k \in DOMAIN row \ {"user_id"} |-> row[k]]

\* Python's None, what update_trade returns for no row found
None == [none |-> TRUE]

tracker_add_trade(session_user, trade_data) ==
    LET user_id == get_user_tracker(session_user)
        row == [id |-> NewRowId(db.trades), user_id |-> user_id] @@ NewTrade(trade_data)
    IN  /\ Cardinality(db.trades) < MaxRows
        /\ db' = [db EXCEPT !.trades = @ \cup {row}]
        /\ ret' = [op |-> "add_trade", user_id |-> user_id, result |-> AsDict(row)]
        /\ UNCHANGED <<trades, portfolio_history, now, threads, portfolio_adjustments, importer, auth>>

tracker_update_trade(session_user, trade_id, updates) ==
    LET user_id == get_user_tracker(session_user)
        found == FindTrade(db.trades, trade_id, user_id)
    IN  /\ IF found = {}
           THEN /\ ret' = [op |-> "update_trade", user_id |-> user_id,
                           trade_id |-> trade_id, result |-> None]
                /\ UNCHANGED db
           ELSE \E trade \in found :
                LET new == [k \in DOMAIN trade |->
                               IF k \in DOMAIN updates THEN updates[k] ELSE trade[k]]
                IN  /\ db' = [db EXCEPT !.trades = (@ \ {trade}) \cup {new}]
                    /\ ret' = [op |-> "update_trade", user_id |-> user_id,
                               trade_id |-> trade_id, result |-> AsDict(new)]
        /\ UNCHANGED <<trades, portfolio_history, now, threads, portfolio_adjustments, importer, auth>>

tracker_delete_trade(session_user, trade_id) ==
    LET user_id == get_user_tracker(session_user)
        found == FindTrade(db.trades, trade_id, user_id)
    IN  /\ IF found = {}
           THEN /\ ret' = [op |-> "delete_trade", user_id |-> user_id,
                           trade_id |-> trade_id, result |-> FALSE]
                /\ UNCHANGED db
           ELSE /\ db' = [db EXCEPT !.trades = @ \ found]
                /\ ret' = [op |-> "delete_trade", user_id |-> user_id,
                           trade_id |-> trade_id, result |-> TRUE]
        /\ UNCHANGED <<trades, portfolio_history, now, threads, portfolio_adjustments, importer, auth>>

tracker_record_portfolio_value(session_user, amount, date_str) ==
    LET user_id == get_user_tracker(session_user)
        date_obj == SnapshotDate(date_str)
        normalized_amount == Round(amount, 2)
        existing == {r \in Owned(db.portfolio_history, user_id) : r.date = date_obj}
    IN  /\ IF existing # {}
           THEN \E e \in existing :
                /\ db' = [db EXCEPT !.portfolio_history =
                             (@ \ {e}) \cup {[e EXCEPT !.total_value = normalized_amount]}]
                /\ ret' = [op |-> "record_portfolio_value", user_id |-> user_id,
                           result |-> [id |-> e.id, date |-> DateKey(date_obj),
                                       amount |-> normalized_amount]]
           ELSE LET entry_id == NewRowId(db.portfolio_history)
                IN  /\ Cardinality(db.portfolio_history) < MaxRows
                    /\ db' = [db EXCEPT !.portfolio_history = @ \cup
                                 {[id |-> entry_id, user_id |-> user_id,
                                   date |-> date_obj, total_value |-> normalized_amount]}]
                    /\ ret' = [op |-> "record_portfolio_value", user_id |-> user_id,
                               result |-> [id |-> entry_id, date |-> DateKey(date_obj),
                                           amount |-> normalized_amount]]
        /\ UNCHANGED <<trades, portfolio_history, now, threads, portfolio_adjustments, importer, auth>>

\* a row of table portfolio_adjustments comes to be (no method of TradeTracker
\* writes the table)
InsertAdjustment(user_id, date, amount) ==
    /\ Cardinality(db.portfolio_adjustments) < MaxRows
    /\ db' = [db EXCEPT !.portfolio_adjustments = @ \cup
                 {[id |-> NewRowId(db.portfolio_adjustments), user_id |-> user_id,
                   date |-> Midnight(DateKey(date)), amount |-> amount]}]
    /\ ret' = [op |-> "insert_adjustment"]
    /\ UNCHANGED <<trades, portfolio_history, now, threads, portfolio_adjustments, importer, auth>>

tracker_load_trades(session_user) ==
    LET user_id == get_user_tracker(session_user)
        rows == {AsDict(r) : r \in Owned(db.trades, user_id)}
    IN  /\ \E result \in load_trades(SetToBag(rows)) :
               ret' = [op |-> "load_trades", user_id |-> user_id, result |-> result]
        /\ UNCHANGED <<trades, portfolio_history, now, threads, portfolio_adjustments, db, importer, auth>>

tracker_load_portfolio_history(session_user) ==
    LET user_id == get_user_tracker(session_user)
    IN  /\ \E result \in load_portfolio_history(Owned(db.portfolio_history, user_id)) :
               ret' = [op |-> "load_portfolio_history", user_id |-> user_id,
                       result |-> result]
        /\ UNCHANGED <<trades, portfolio_history, now, threads, portfolio_adjustments, db, importer, auth>>

tracker_load_portfolio_adjustments(session_user) ==
    LET user_id == get_user_tracker(session_user)
    IN  /\ \E result \in
               load_portfolio_adjustments(Owned(db.portfolio_adjustments, user_id)) :
               ret' = [op |-> "load_portfolio_adjustments", user_id |-> user_id,
                       result |-> result]
        /\ UNCHANGED <<trades, portfolio_history, now, threads, portfolio_adjustments, db, importer, auth>>

\* request bodies of add_trade
UserTradeInputs ==
    { [symbol |-> "AAPL", trade_type |-> "STOCK", strike |-> 0, option_type |-> "",
       action |-> action, quantity |-> 1, price |-> 1, transaction_fee |-> 1,
       sold_amount |-> 0, date |-> 1] : action \in {"BUY"} }

UserUpdates == {[quantity |-> 5]}

NextUsers ==
    \/ \E u \in SessionUsers, td \in UserTradeInputs : tracker_add_trade(u, td)
    \/ \E u \in SessionUsers, id \in 1..MaxRows, updates \in UserUpdates :
           tracker_update_trade(u, id, updates)
    \/ \E u \in SessionUsers, id \in 1..MaxRows : tracker_delete_trade(u, id)
    \/ \E u \in SessionUsers, amount \in {R(0), R(100)} :
           tracker_record_portfolio_value(u, amount, 1)
    \/ \E user_id \in UserIds : InsertAdjustment(user_id, 1, R(100))
    \/ \E u \in SessionUsers : tracker_load_trades(u)
    \/ \E u \in SessionUsers : tracker_load_portfolio_history(u)
    \/ \E u \in SessionUsers : tracker_load_portfolio_adjustments(u)

SpecUsers == Init /\ [][NextUsers]_vars

\* the rows of a table whose dicts a load returned
RowsRead(table, result) ==
    {r \in table : \E i \in 1..Len(result) : result[i].id = r.id}

ReadsOnlyOwnRows ==
    /\ ret.op = "load_trades" =>
           \A r \in RowsRead(db.trades, ret.result) : r.user_id = ret.user_id
    /\ ret.op = "load_portfolio_history" =>
           \A r \in RowsRead(db.portfolio_history, ret.result) : r.user_id = ret.user_id
    /\ ret.op = "load_portfolio_adjustments" =>
           \A r \in RowsRead(db.portfolio_adjustments, ret.result) :
               r.user_id = ret.user_id

\* a step that is update_trade or delete_trade for the id of another user's row
ForeignWrite ==
    /\ ret'.op \in {"update_trade", "delete_trade"}
    /\ \E r \in db.trades : r.id = ret'.trade_id /\ r.user_id # ret'.user_id

\* C21: a tracker reads only rows of its own user, and update_trade /
\* delete_trade with the id of another user's trade return None / False and
\* leave every table as it was
C21_NoCrossUserVisibility ==
    /\ []ReadsOnlyOwnRows
    /\ [][ForeignWrite =>
             /\ ret'.op = "update_trade" => ret'.result = None
             /\ ret'.op = "delete_trade" => ret'.result = FALSE
             /\ db' = db]_vars

\* the table holds trades of two users, and one of them has called
\* delete_trade with the id of the other's trade
C21_Witness ==
    /\ \E a \in db.trades : \E b \in db.trades : a.user_id # b.user_id
    /\ ret.op = "delete_trade"
    /\ \E r \in db.trades : r.id = ret.trade_id /\ r.user_id # ret.user_id

----------------------------------------------------------------------------
(* The snapshots the daily-balance series depends on (Spec).               *)

\* the positions of the snapshots of the least date
EarliestAt(history) ==
    {i \in 1..Len(history) :
        \A j \in 1..Len(history) : history[i].date <= history[j].date}

\* history without the snapshots at the positions `dropped`
RECURSIVE Without(_, _, _)
Without(history, dropped, i) ==
    IF i > Len(history) THEN <<>>
    ELSE (IF i \in dropped THEN <<>> ELSE <<history[i]>>)
         \o Without(history, dropped, i + 1)

\* the histories that differ from `history` in later snapshots only: some of
\* them not recorded, or one of them recorded with another amount
LaterSnapshotsVaried(history) ==
    LET later == (1..Len(history)) \ EarliestAt(history)
    IN  {Without(history, dropped, 1) : dropped \in SUBSET later}
        \cup {[history EXCEPT ![i].amount = Round(a, 2)] :
                 i \in later, a \in SnapshotAmounts \cup {R(7)}}

\* C22: the series get_portfolio_daily_balances returns is the series it
\* returns for the same trades and clock when later snapshots are left out or
\* carry another amount
C22_OnlyEarliestSnapshotCounts ==
    ret.op = "get_portfolio_daily_balances" =>
        \A other \in LaterSnapshotsVaried(ret.history) :
            \E loaded \in load_trades(trades) :
                get_portfolio_daily_balances(other, loaded, ret.today) = ret.balances

\* a series over two snapshots of different amounts, with a closing trade in it
C22_Witness ==
    /\ ret.op = "get_portfolio_daily_balances"
    /\ Len(ret.history) >= 2
    /\ \E i \in 1..Len(ret.history) : ret.history[i].amount # BaseAmount
    /\ \E t \in BagToSet(trades) : IsClosing(t) /\ DateKey(t.date) \in DOMAIN ret.balances

----------------------------------------------------------------------------
(* Backtests over ledgers with opening trades (SpecCandidates).            *)

\* opening trades of two symbols and days, beside the trades of FilterTradeInputs
CandidateTradeInputs ==
    FilterTradeInputs \cup
    { [symbol |-> y, trade_type |-> "OPTION", strike |-> 150, option_type |-> "CALL",
       action |-> "BUY", quantity |-> 1, price |-> 1,
       transaction_fee |-> 1, sold_amount |-> x, date |-> 2] :
      y \in BacktestSymbols, x \in {0, 500} }

NextCandidates ==
    \/ \E td \in CandidateTradeInputs : add_trade(td)
    \/ \E row \in BagToSet(trades) : delete_trade(row)
    \/ \E filters \in FilterInputs : RunBacktest(filters)

SpecCandidates == Init /\ [][NextCandidates]_vars

\* the ledger without its opening trades
ClosingTrades ==
    LET S == {t \in BagToSet(trades) : IsClosing(t)}
    IN  [t \in S |-> CopiesIn(t, trades)]

\* C23: the counts of a backtest are those of the backtest over the closing
\* trades of the ledger alone, and no more trades are counted than the ledger
\* has closing trades
C23_OnlyClosingTradesCounted ==
    ret.op = "backtest" =>
        /\ ret.metrics.total_trades <= BagCardinality(ClosingTrades)
        /\ \A loaded \in load_trades(ClosingTrades) :
               LET m == backtest(ret.filters, loaded)
               IN  /\ m.total_trades = ret.metrics.total_trades
                   /\ m.winning_trades = ret.metrics.winning_trades
                   /\ m.losing_trades = ret.metrics.losing_trades

\* a backtest with a minimum win rate that counts a trade, over a ledger that
\* has an opening trade passing every other filter
C23_Witness ==
    /\ ret.op = "backtest"
    /\ ret.filters.min_win_rate # 0
    /\ ret.metrics.total_trades > 0
    /\ \E t \in BagToSet(trades) :
           /\ IsOpening(t)
           /\ apply_filters_any_action(ret.filters, <<t>>) # <<>>

----------------------------------------------------------------------------
(* Open positions (SpecPositions).                                         *)

\* symbol_positions[symbol_key] of a key not seen yet, filled from the trade
NewPosition(trade) ==
    [key |-> get_symbol_key(trade), symbol |-> trade.symbol, strike |-> trade.strike,
     option_type |-> trade.option_type, quantity |-> 0, total_cost |-> 0,
     trades |-> <<>>]

\* the loop body of get_open_positions with closing trades left out of account
PositionStep_ignore_closing(pos, trade) ==
    IF IsOpening(trade)
    THEN [pos EXCEPT !.quantity = @ + trade.quantity,
                     !.total_cost = @ + trade.quantity * trade.price,
                     !.trades = Append(@, trade)]
    ELSE pos

\* the loop body of get_open_positions on the position of the trade's key
PositionStep(pos, trade) ==
    IF IsOpening(trade)
    THEN [pos EXCEPT !.quantity = @ + trade.quantity,
                     !.total_cost = @ + trade.quantity * trade.price,
                     !.trades = Append(@, trade)]
    ELSE IF IsClosing(trade)
    THEN [pos EXCEPT !.quantity = @ - trade.quantity]
    ELSE pos

\* the loop of get_open_positions: symbol_positions in the order of insertion
RECURSIVE SymbolPositions(_, _, _)
SymbolPositions(loaded, i, symbol_positions) ==
    IF i > Len(loaded) THEN symbol_positions
    ELSE LET trade == loaded[i]
             at == {k \in 1..Len(symbol_positions) :
                       symbol_positions[k].key = get_symbol_key(trade)}
         IN  SymbolPositions(loaded, i + 1,
                 IF at = {}
                 THEN Append(symbol_positions, PositionStep(NewPosition(trade), trade))
                 ELSE [k \in 1..Len(symbol_positions) |->
                          IF k \in at THEN PositionStep(symbol_positions[k], trade)
                          ELSE symbol_positions[k]])

\* one entry of the list returned; key is the dict key the entry was kept
\* under, which the entry itself does not carry
OpenPosition(pos) ==
    LET avg_price == IF pos.trades # <<>>
                     THEN RDiv(R(pos.total_cost), SumQuantity(pos.trades)) ELSE R(0)
    IN  [key |-> pos.key, symbol |-> pos.symbol, strike |-> pos.strike,
         option_type |-> pos.option_type,
         quantity |-> Round(R(pos.quantity), 4),
         avg_price |-> Round(avg_price, 2),
         total_cost |-> Round(R(pos.total_cost), 2)]

RECURSIVE OpenPositions(_)
OpenPositions(symbol_positions) ==
    IF symbol_positions = <<>> THEN <<>>
    ELSE (IF Head(symbol_positions).quantity > 0
          THEN <<OpenPosition(Head(symbol_positions))>> ELSE <<>>)
         \o OpenPositions(Tail(symbol_positions))

get_open_positions(loaded) == OpenPositions(SymbolPositions(loaded, 1, <<>>))

GetOpenPositions ==
    /\ \E loaded \in load_trades(trades) :
           ret' = [op |-> "get_open_positions",
                   positions |-> get_open_positions(loaded)]
    /\ UNCHANGED <<trades, portfolio_history, now, threads, portfolio_adjustments, db, importer, auth>>

\* request bodies of add_trade: an option and a stock of one symbol, bought
\* and sold
PositionTradeInputs ==
    { [symbol |-> "AAPL", trade_type |-> tt, strike |-> 150, option_type |-> "CALL",
       action |-> a, quantity |-> q, price |-> p, transaction_fee |-> 1,
       sold_amount |-> 0, date |-> d] :
      tt \in {"OPTION", "STOCK"}, a \in {"BUY", "SELL"}, q \in {1, 2}, p \in {1, 2},
      d \in {1, 2} }

NextPositions ==
    \/ \E td \in PositionTradeInputs : add_trade(td)
    \/ \E row \in BagToSet(trades) : delete_trade(row)
    \/ GetOpenPositions

SpecPositions == Init /\ [][NextPositions]_vars

\* the matching keys of the ledger, and the opening and closing trades of a key
LedgerKeys == {get_symbol_key(t) : t \in BagToSet(trades)}

OpeningOf(key) ==
    LET S == {t \in BagToSet(trades) : get_symbol_key(t) = key /\ IsOpening(t)}
    IN  [t \in S |-> CopiesIn(t, trades)]

ClosingOf(key) ==
    LET S == {t \in BagToSet(trades) : get_symbol_key(t) = key /\ IsClosing(t)}
    IN  [t \in S |-> CopiesIn(t, trades)]

NetOpenQuantity(key) == LotsQuantity(OpeningOf(key)) - LotsQuantity(ClosingOf(key))

\* the entries reported for a key
EntriesOf(key) ==
    {i \in 1..Len(ret.positions) : ret.positions[i].key = key}

\* a key is reported, once, iff its net open quantity is positive, and with
\* that quantity
ReportsNetQuantity ==
    \A key \in LedgerKeys :
        /\ Cardinality(EntriesOf(key)) = IF NetOpenQuantity(key) > 0 THEN 1 ELSE 0
        /\ \A i \in EntriesOf(key) :
               ret.positions[i].quantity = R(NetOpenQuantity(key))

\* C24 as stated: avg_price is sum(quantity * price) / sum(quantity) over the
\* opening trades of the key
C24_NetQuantityAndAveragePrice ==
    ret.op = "get_open_positions" =>
        /\ ReportsNetQuantity
        /\ \A key \in LedgerKeys : \A i \in EntriesOf(key) :
               ret.positions[i].avg_price =
                   Rat(LotsValue(OpeningOf(key)), LotsQuantity(OpeningOf(key)))

\* C24 amended: avg_price is that quotient rounded to two decimals
C24_NetQuantityAndRoundedAveragePrice ==
    ret.op = "get_open_positions" =>
        /\ ReportsNetQuantity
        /\ \A key \in LedgerKeys : \A i \in EntriesOf(key) :
               ret.positions[i].avg_price =
                   Round(Rat(LotsValue(OpeningOf(key)), LotsQuantity(OpeningOf(key))), 2)

\* positions of a ledger with a key that is open after a closing trade, bought
\* at two prices
C24_Witness ==
    /\ ret.op = "get_open_positions"
    /\ \E key \in LedgerKeys :
           /\ EntriesOf(key) # {}
           /\ ClosingOf(key) # EmptyBag
           /\ \E a \in BagToSet(OpeningOf(key)) : \E b \in BagToSet(OpeningOf(key)) :
                  a.price # b.price

----------------------------------------------------------------------------
(* The _parse_date of the three components over every kind of input        *)
(* (SpecDates).                                                            *)

Components == {"TradeTracker", "StrategyBacktester", "AITradingCoach"}

\* the formats strptime is tried with, in this order
DateFormats == <<"%Y-%m-%d %H:%M:%S", "%Y-%m-%d", "%m/%d/%Y %H:%M:%S", "%m/%d/%Y">>

\* how an input string is written: ISO 8601 with a 'T' (with or without a zone
\* suffix), one of the four formats, or none of these
Writings == {"isoformat", "isoformat+zone"} \cup {DateFormats[i] : i \in DOMAIN DateFormats}
            \cup {"other"}

\* formats that write the day only
DayOnly == {"%Y-%m-%d", "%m/%d/%Y"}

\* the inputs of _parse_date: None, '', a datetime, or the string that writes
\* timestamp ts in writing fmt
DateInputs ==
    {[kind |-> "None"], [kind |-> "empty"]}
    \cup [kind : {"datetime"}, ts : 0..3]
    \cup {v \in [kind : {"str"}, fmt : Writings, ts : 0..3] :
             v.fmt \in DayOnly => v.ts = Midnight(DateKey(v.ts))}

\* the string part of _parse_date, the same text in the three components:
\* fromisoformat of a string with a 'T', the zone suffix cut off, or the
\* first format that strptime accepts; the clock when nothing parses
ParseString(v, clock) ==
    IF v.fmt \in {"isoformat", "isoformat+zone"} THEN v.ts
    ELSE IF \E i \in DOMAIN DateFormats : DateFormats[i] = v.fmt THEN v.ts
    ELSE clock

\* TradeTracker._parse_date
TradeTracker_parse_date(v, clock) ==
    IF v.kind \in {"None", "empty"} THEN clock
    ELSE IF v.kind = "datetime" THEN v.ts
    ELSE IF v.kind = "str" THEN ParseString(v, clock)
    ELSE clock

\* StrategyBacktester._parse_date: no branch for a datetime
StrategyBacktester_parse_date(v, clock) ==
    IF v.kind \in {"None", "empty"} THEN clock
    ELSE IF v.kind = "str" THEN ParseString(v, clock)
    ELSE clock

\* AITradingCoach._parse_date: no branch for a datetime
AITradingCoach_parse_date(v, clock) ==
    IF v.kind \in {"None", "empty"} THEN clock
    ELSE IF v.kind = "str" THEN ParseString(v, clock)
    ELSE clock

ParseDateOf(component, v, clock) ==
    CASE component = "TradeTracker" -> TradeTracker_parse_date(v, clock)
      [] component = "StrategyBacktester" -> StrategyBacktester_parse_date(v, clock)
      [] component = "AITradingCoach" -> AITradingCoach_parse_date(v, clock)

\* one call of _parse_date
ParseDate(component, v) ==
    /\ ret' = [op |-> "_parse_date", component |-> component, input |-> v,
               clock |-> now, result |-> ParseDateOf(component, v, now)]
    /\ UNCHANGED <<trades, portfolio_history, now, threads, portfolio_adjustments, db, importer, auth>>

NextDates ==
    \/ \E component \in Components, v \in DateInputs : ParseDate(component, v)
    \/ Tick

SpecDates == Init /\ [][NextDates]_vars

\* C25: _parse_date returns a datetime given to it, the clock for None, ''
\* and a string in no known writing, and what the other two components
\* return for the same input
C25_NormalizersAgree ==
    ret.op = "_parse_date" =>
        /\ ret.input.kind = "datetime" => ret.result = ret.input.ts
        /\ ret.input.kind \in {"None", "empty"} => ret.result = ret.clock
        /\ (ret.input.kind = "str" /\ ret.input.fmt = "other") => ret.result = ret.clock
        /\ \A component \in Components :
               ParseDateOf(component, ret.input, ret.clock) = ret.result

----------------------------------------------------------------------------
(* The P&L of the Insight Aggregator (SpecCoach).                          *)

\* the fee written into AITradingCoach._calculate_trade_pnl
COACH_TRANSACTION_FEE == 2

\* AITradingCoach._calculate_trade_pnl: the trade's own price as cost basis
coach_calculate_trade_pnl(trade) ==
    IF trade.sold_amount > 0
    THEN RSub(RSub(R(trade.sold_amount),
                   RMul(RMul(R(trade.quantity), R(trade.price)), R(100))),
              R(COACH_TRANSACTION_FEE))
    ELSE R(0)

\* AITradingCoach(trades)._calculate_trade_pnl(trade) for a closing trade of
\* the ledger, as the loops of the coach call it
CoachCalculateTradePnl(trade) ==
    /\ BagIn(trade, trades)
    /\ IsClosing(trade)
    /\ ret' = [op |-> "coach_calculate_trade_pnl", trade |-> trade,
               pnl |-> coach_calculate_trade_pnl(trade)]
    /\ UNCHANGED <<trades, portfolio_history, now, threads, portfolio_adjustments, db, importer, auth>>

\* request bodies of add_trade: an option bought, and sold with and without
\* proceeds
CoachTradeInputs ==
    { [symbol |-> "AAPL", trade_type |-> "OPTION", strike |-> 150,
       option_type |-> "CALL", action |-> "BUY", quantity |-> q, price |-> 1,
       transaction_fee |-> 1, sold_amount |-> 0, date |-> 0] : q \in {1, 2} }
    \cup
    { [symbol |-> "AAPL", trade_type |-> "OPTION", strike |-> 150,
       option_type |-> "CALL", action |-> "SELL", quantity |-> 1, price |-> p,
       transaction_fee |-> f, sold_amount |-> x, date |-> 1] :
      p \in {1, 3}, f \in {2, 3}, x \in {0, 500} }

NextCoach ==
    \/ \E td \in CoachTradeInputs : add_trade(td)
    \/ \E row \in BagToSet(trades) : delete_trade(row)
    \/ \E trade \in BagToSet(trades) : CoachCalculateTradePnl(trade)

SpecCoach == Init /\ [][NextCoach]_vars

\* C26: the P&L the coach gives a closing trade is the P&L calculate_trade_pnl
\* gives it over the same ledger
C26_CoachPnlIsLivePnl ==
    ret.op = "coach_calculate_trade_pnl" =>
        \E loaded \in load_trades(trades) :
            ret.pnl = calculate_trade_pnl(ret.trade, loaded)

----------------------------------------------------------------------------
(* The lots used by all the closing trades of a ledger (SpecPnl).          *)

\* the quantity the FIFO loop of calculate_trade_pnl(trade) matches against the
\* lot at position p of its buy_trades: what the loop takes off remaining_qty
\* there
MatchedAt(trade, loaded, p) ==
    LET buy_trades == SortByDate(PriorOpens(trade, loaded))
        start == [remaining_qty |-> R(trade.quantity),
                  total_cost |-> R(0), total_buy_fees |-> R(0)]
    IN  RSub(FifoLoop(SubSeq(buy_trades, 1, p - 1), 1, start).remaining_qty,
             FifoLoop(SubSeq(buy_trades, 1, p), 1, start).remaining_qty)

\* the quantity calculate_trade_pnl(trade) matches against lots equal to `lot`
RECURSIVE MatchedFromLot(_, _, _, _)
MatchedFromLot(trade, loaded, lot, p) ==
    LET buy_trades == SortByDate(PriorOpens(trade, loaded))
    IN  IF p > Len(buy_trades) THEN R(0)
        ELSE RAdd(IF buy_trades[p] = lot THEN MatchedAt(trade, loaded, p) ELSE R(0),
                  MatchedFromLot(trade, loaded, lot, p + 1))

\* the same, summed over the closing trades with proceeds among loaded[k..]
RECURSIVE TotalMatchedFromLot(_, _, _)
TotalMatchedFromLot(loaded, lot, k) ==
    IF k > Len(loaded) THEN R(0)
    ELSE RAdd(IF IsClosing(loaded[k]) /\ loaded[k].sold_amount > 0
              THEN MatchedFromLot(loaded[k], loaded, lot, 1) ELSE R(0),
              TotalMatchedFromLot(loaded, lot, k + 1))

\* C27: over the calculate_trade_pnl of every closing trade of the ledger, the
\* quantity matched against an opening trade is at most the quantity of that
\* opening trade (times the number of equal opening trades in the ledger)
C27_LotsConsumedOnce ==
    ReturnedFifo =>
        \A loaded \in load_trades(trades) :
            \A lot \in {t \in BagToSet(trades) : IsOpening(t)} :
                RLe(TotalMatchedFromLot(loaded, lot, 1),
                    R(lot.quantity * CopiesIn(lot, trades)))

----------------------------------------------------------------------------
(* Wins and losses of a Metrics record (SpecBacktest).                     *)

\* the average and the greatest of a list of losses, 0 for the empty list
AvgOf(s) == IF s # <<>> THEN Round(RDiv(SumRat(s), R(Len(s))), 2) ELSE R(0)
GreatestOf(s) == IF s # <<>> THEN Round(MaxRat(s), 2) ELSE R(0)

\* the counts and loss figures the claim gives for the P&Ls of the surviving
\* closing trades: a win is a P&L > 0, every other trade is a loss and is in
\* the loss list with |P&L|
CountsOf(pnls) ==
    [total_trades |-> Len(pnls),
     winning_trades |-> Len(SelectSeq(pnls, IsWin)),
     losing_trades |-> Len(SelectSeq(pnls, IsNotWin)),
     avg_loss |-> AvgOf(AbsAll(SelectSeq(pnls, IsNotWin))),
     max_loss |-> GreatestOf(AbsAll(SelectSeq(pnls, IsNotWin)))]

\* C28: in the record of a backtest and of get_pnl_metrics, winning_trades +
\* losing_trades = total_trades = the number of surviving closing trades, the
\* wins are the trades of P&L > 0, and avg_loss and the greatest loss are taken
\* over the |P&L| of every other trade, those of P&L 0 included
C28_ZeroPnlIsALoss ==
    /\ ret.op = "backtest" =>
           \E loaded \in load_trades(trades) :
               LET m == ret.metrics
                   c == CountsOf(BacktestPnls(apply_filters(ret.filters, loaded)))
               IN  /\ m.total_trades = c.total_trades
                   /\ m.winning_trades = c.winning_trades
                   /\ m.losing_trades = c.losing_trades
                   /\ m.winning_trades + m.losing_trades = m.total_trades
                   /\ m.max_loss = c.max_loss
                   /\ "avg_loss" \in DOMAIN m => m.avg_loss = c.avg_loss
    /\ ret.op = "get_pnl_metrics" =>
           \E loaded \in load_trades(trades) :
               LET m == ret.metrics
                   c == CountsOf(AllPnls(loaded, 1))
               IN  /\ m.total_trades = c.total_trades
                   /\ m.winning_trades = c.winning_trades
                   /\ m.losing_trades = c.losing_trades
                   /\ m.winning_trades + m.losing_trades = m.total_trades
                   /\ m.largest_loss = c.max_loss
                   /\ m.avg_loss = c.avg_loss

----------------------------------------------------------------------------
(* The Webull importer (SpecImporter): importer.log holds the items of     *)
(* the loadOrderList lines of the log files, in the order scan_log_files   *)
(* reads them; importer.posted holds the POSTs made, each with the answer. *)

\* lines in the log files, and POSTs made
MaxLines == 3
MaxPosts == 4

\* the orders of the Webull account
OrderIds == {"o1", "o2"}

\* parse_webull_trade: the trade ID is made of the order's id, fill time,
\* symbol, action, quantity and price, the same for every line that lists
\* the order
webull_trade_id(item) == item.id

\* what a loadOrderList line lists
LineInputs ==
    { <<[id |-> "o1", statusCode |-> "Filled"]>>,
      <<[id |-> "o2", statusCode |-> "Filled"]>>,
      <<[id |-> "o1", statusCode |-> "Cancelled"]>>,
      <<[id |-> "o1", statusCode |-> "Filled"], [id |-> "o2", statusCode |-> "Filled"]>> }

\* Webull writes a loadOrderList line
WriteLogLine(line) ==
    /\ Len(importer.log) < MaxLines
    /\ importer' = [importer EXCEPT !.log = Append(@, line)]
    /\ ret' = [op |-> "write_log_line"]
    /\ UNCHANGED <<trades, portfolio_history, now, threads, portfolio_adjustments, db, auth>>

\* the items of one line that scan_log_files takes
RECURSIVE ScanLine(_, _)
ScanLine(line, processed_trades) ==
    IF line = <<>> THEN <<>>
    ELSE (IF Head(line).statusCode = "Filled"
             /\ webull_trade_id(Head(line)) \notin processed_trades
          THEN <<webull_trade_id(Head(line))>> ELSE <<>>)
         \o ScanLine(Tail(line), processed_trades)

\* scan_log_files: new_trades, the IDs of every line that are not in
\* processed_trades, which does not change during the scan
RECURSIVE scan_log_files(_, _)
scan_log_files(log, processed_trades) ==
    IF log = <<>> THEN <<>>
    ELSE ScanLine(Head(log), processed_trades)
         \o scan_log_files(Tail(log), processed_trades)

\* the loop of process_new_trades over new_trades[i..]: a POST per entry, and
\* save_processed_trade when it succeeded
RECURSIVE ImportLoop(_, _, _, _)
ImportLoop(new_trades, i, success, imp) ==
    IF i > Len(new_trades) THEN imp
    ELSE ImportLoop(new_trades, i + 1, success,
             [imp EXCEPT
                 !.posted = Append(@, [trade_id |-> new_trades[i],
                                       success |-> success[i]]),
                 !.processed_trades =
                     IF success[i] THEN @ \cup {new_trades[i]} ELSE @])

\* process_new_trades(), every POST succeeding or failing
process_new_trades ==
    LET new_trades == scan_log_files(importer.log, importer.processed_trades)
    IN  /\ Len(importer.posted) + Len(new_trades) <= MaxPosts
        /\ \E success \in [1..Len(new_trades) -> BOOLEAN] :
               importer' = ImportLoop(new_trades, 1, success, importer)
        /\ ret' = [op |-> "process_new_trades", new_trades |-> new_trades]
        /\ UNCHANGED <<trades, portfolio_history, now, threads, portfolio_adjustments, db, auth>>

NextImporter ==
    \/ \E line \in LineInputs : WriteLogLine(line)
    \/ process_new_trades

SpecImporter == Init /\ [][NextImporter]_vars

\* the POSTs of a trade ID that the journal accepted
Imported(trade_id) ==
    {i \in 1..Len(importer.posted) :
        importer.posted[i].trade_id = trade_id /\ importer.posted[i].success}

\* C29: no trade ID is imported (POSTed with success) more than once, and
\* every ID of processed_trades was imported
C29_ImportedAtMostOnce ==
    /\ \A o \in OrderIds : Cardinality(Imported(o)) <= 1
    /\ \A trade_id \in importer.processed_trades : Imported(trade_id) # {}

----------------------------------------------------------------------------
(* Password reset requests (SpecReset).                                    *)

Emails == {"a@x", "b@x"}

\* the codes secrets.randbelow(10000) gives, of which two
ResetCodes == {"0000", "1234"}

NoCode == "(none)"

\* 'A 4-digit reset code has been sent to your email. ...'
SentMessage == [text |-> "sent"]

\* 'A 4-digit reset code has been generated. Code: {reset_code} ...'
GeneratedMessage(reset_code) == [text |-> "generated", code |-> reset_code]

\* the environment gets SMTP_USER and SMTP_PASSWORD, or loses them, while no
\* request is served
SetEnvironment(configured) ==
    /\ auth' = [auth EXCEPT !.smtp_configured = configured]
    /\ ret' = [op |-> "set_environment"]
    /\ UNCHANGED <<trades, portfolio_history, now, threads, portfolio_adjustments, db, importer>>

\* create_user: the row of a new account
create_user(email) ==
    /\ \A u \in auth.users : u.email # email
    /\ auth' = [auth EXCEPT !.users = @ \cup {[email |-> email, reset_code |-> NoCode]}]
    /\ ret' = [op |-> "create_user"]
    /\ UNCHANGED <<trades, portfolio_history, now, threads, portfolio_adjustments, db, importer>>

\* send_reset_code_email: False without SMTP settings, else whether the
\* server took the message
send_reset_code_email(configured, delivered) == configured /\ delivered

\* the dict request_password_reset returns; user_found is the outcome of its
\* query by email
reset_response(user_found, configured, delivered, reset_code) ==
    IF ~user_found
    THEN [success |-> TRUE, message |-> SentMessage, reset_code |-> reset_code]
    ELSE LET email_sent == send_reset_code_email(configured, delivered)
         IN  IF ~email_sent \/ ~configured
             THEN [success |-> TRUE, message |-> GeneratedMessage(reset_code),
                   reset_code |-> reset_code]
             ELSE [success |-> TRUE, message |-> SentMessage]

\* request_password_reset(email), secrets giving reset_code and the mail
\* server taking the message or not
request_password_reset(email, reset_code, delivered) ==
    LET user_found == \E u \in auth.users : u.email = email
    IN  /\ auth' = [auth EXCEPT !.users =
                       {IF u.email = email THEN [u EXCEPT !.reset_code = reset_code]
                        ELSE u : u \in @}]
        /\ ret' = [op |-> "request_password_reset", email |-> email,
                   delivered |-> delivered,
                   response |-> reset_response(user_found, auth.smtp_configured,
                                               delivered, reset_code)]
        /\ UNCHANGED <<trades, portfolio_history, now, threads, portfolio_adjustments, db, importer>>

NextReset ==
    \/ \E configured \in BOOLEAN : SetEnvironment(configured)
    \/ \E email \in Emails : create_user(email)
    \/ \E email \in Emails, reset_code \in ResetCodes, delivered \in BOOLEAN :
           request_password_reset(email, reset_code, delivered)

SpecReset == Init /\ [][NextReset]_vars

\* C30: with the same settings and the same mail server, the response to a
\* request for a registered email and the response to a request for an
\* email that is not registered have the same success, the same message and
\* the same fields
C30_ResetDoesNotRevealRegistration ==
    ret.op = "request_password_reset" =>
        \A user_found \in BOOLEAN : \E reset_code \in ResetCodes :
            LET other == reset_response(user_found, auth.smtp_configured,
                                        ret.delivered, reset_code)
            IN  /\ other.success = ret.response.success
                /\ other.message = ret.response.message
                /\ DOMAIN other = DOMAIN ret.response

====
